---- MODULE Spec2Model ----
(***************************************************************************)
(* Chirpy authentication / session subsystem: password hashing, signed     *)
(* access tokens, opaque refresh tokens kept in a store, bearer-header     *)
(* parsing and the HTTP handlers that compose them.                        *)
(*                                                                         *)
(* Time is counted in ticks, TicksPerSecond ticks to the second, so that   *)
(* the one-second resolution of the JWT NumericDate claims is visible.     *)
(* Text is a sequence of symbols; every symbol is a record, so that        *)
(* characters, whitespace and the compact form of a signed token can be    *)
(* compared with each other.                                               *)
(***************************************************************************)
EXTENDS Integers, Sequences, FiniteSets, TLC

VARIABLES
    now,            \* wall clock (time.Now()), in ticks
    ticks,          \* number of clock advances so far (bounds the clock)
    users,          \* users table: id -> row
    refreshTokens,  \* refresh_tokens table: token -> row
    req,            \* the request served last
    resp,           \* the response written for it
    log,            \* the error that request ended on, "nil" if none
    sessions,       \* history: refresh token -> the login that returned it,
                    \* whether a revoke of it has been answered 204, and the
                    \* access token a refresh with it returned last
    call,           \* the call of a function of package auth made last, from
                    \* outside the handlers: its arguments and results
    chirps,         \* chirps table: id -> row
    goroutines,     \* handlers running side by side: each one's position and
                    \* what it has read so far
    cfg             \* apiConfig: the platform and the file server hit counter

vars == <<now, ticks, users, refreshTokens, req, resp, log, sessions, call,
          chirps, goroutines, cfg>>

-----------------------------------------------------------------------------
(* Bounds *)

TicksPerSecond == 2     \* clock resolution of the model
MaxAdvance == 2         \* clock advances in one behaviour
MaxUsers == 2           \* rows of the users table
MaxTokens == 2          \* distinct values the random source can return
MaxChirps == 1          \* rows of the chirps table
MaxGoroutines == 2      \* handlers running side by side

-----------------------------------------------------------------------------
(* Durations, in ticks *)

SecondsPerHour == 3600
RefreshTokenDays == 60

Second == TicksPerSecond
Hour == SecondsPerHour * Second

\* mutant: sixty hours instead of sixty days
RefreshTTL_Hours == RefreshTokenDays * Hour

RefreshTTL == RefreshTokenDays * 24 * Hour

ClockSteps == {1, Hour, RefreshTTL}

NullTime == 0 - 1       \* SQL NULL in a timestamp column

-----------------------------------------------------------------------------
(* 64-bit integers: Go's int and time.Duration on a 64-bit build *)

NanosPerSecond == 1000000000

\* the k low bytes of n >= 0, least significant first
RECURSIVE BytesOf(_, _)
BytesOf(n, k) ==
    IF k = 0 THEN <<>> ELSE <<n % 256>> \o BytesOf(n \div 256, k - 1)

\* an int64 in two's complement, eight bytes, least significant first
I64(n) ==
    IF n >= 0 THEN BytesOf(n, 8)
    ELSE [i \in 1..8 |-> 255 - BytesOf((0 - n) - 1, 8)[i]]

\* the int64 a * 2^48 + b * 2^24 + c, for a < 2^15 and b, c < 2^24
I64Of(a, b, c) == BytesOf(c, 3) \o BytesOf(b, 3) \o BytesOf(a, 2)

\* sum of the byte products that land in byte k of a product
RECURSIVE Column(_, _, _, _)
Column(a, b, k, i) ==
    IF i > k THEN 0 ELSE a[i] * b[k - i + 1] + Column(a, b, k, i + 1)

RECURSIVE MulFrom(_, _, _, _)
MulFrom(a, b, k, carry) ==
    IF k > 8 THEN <<>>
    ELSE LET c == Column(a, b, k, 1) + carry
         IN  <<c % 256>> \o MulFrom(a, b, k + 1, c \div 256)

\* a * b as Go computes it: the low 64 bits of the product
Mul64(a, b) == MulFrom(a, b, 1, 0)

IsNeg64(a) == a[8] >= 128

RECURSIVE BelowFrom(_, _, _)
BelowFrom(a, b, i) ==
    IF i = 0 THEN FALSE
    ELSE IF a[i] # b[i] THEN a[i] < b[i]
    ELSE BelowFrom(a, b, i - 1)

\* a < b on int64
Less64(a, b) ==
    IF IsNeg64(a) # IsNeg64(b) THEN IsNeg64(a) ELSE BelowFrom(a, b, 8)

\* a \div m for a >= 0 and 0 < m <= 1000, by short division from byte i
\* down; r is the remainder so far
RECURSIVE DivFrom(_, _, _, _)
DivFrom(a, m, i, r) ==
    IF i = 0 THEN <<>>
    ELSE LET cur == r * 256 + a[i]
         IN  DivFrom(a, m, i - 1, cur % m) \o <<cur \div m>>

Div64(a, m) == DivFrom(a, m, 8, 0)

\* the number an int64 in 0 .. 2^31 - 1 stands for
IntOf(a) == a[1] + 256 * a[2] + 65536 * a[3] + 16777216 * a[4]

\* time.Hour in nanoseconds
HourNanos == Mul64(I64(SecondsPerHour), I64(NanosPerSecond))

\* the whole ticks in a duration of 0 < d <= time.Hour nanoseconds: what
\* now.Add(d) adds to a clock that reads a whole number of ticks, as far as
\* truncation to whole seconds can tell
TicksOf(d) ==
    IntOf(Div64(Div64(Div64(Mul64(d, I64(TicksPerSecond)), 1000), 1000), 1000))

-----------------------------------------------------------------------------
(* Text *)

Ch(c) == [kind |-> "ch", c |-> c]
SP == [kind |-> "ws", c |-> " "]
TAB == [kind |-> "ws", c |-> "\t"]

Str(cs) == [i \in 1..Len(cs) |-> Ch(cs[i])]

IsSpace(sym) == sym.kind = "ws"

LowerOf(c) ==
    LET upper == <<"A", "B", "C", "D", "E", "F", "G", "H", "I", "J", "K", "L", "M",
                   "N", "O", "P", "Q", "R", "S", "T", "U", "V", "W", "X", "Y", "Z">>
        lower == <<"a", "b", "c", "d", "e", "f", "g", "h", "i", "j", "k", "l", "m",
                   "n", "o", "p", "q", "r", "s", "t", "u", "v", "w", "x", "y", "z">>
    IN  IF \E k \in 1..26 : upper[k] = c
        THEN lower[CHOOSE k \in 1..26 : upper[k] = c]
        ELSE c

\* mutant: letters keep their case
ToLower_Id(s) == s

ToLower(s) ==
    [i \in 1..Len(s) |-> IF s[i].kind = "ch" THEN Ch(LowerOf(s[i].c)) ELSE s[i]]

RECURSIVE SkipSpace(_)
SkipSpace(s) ==
    IF s = <<>> THEN <<>>
    ELSE IF IsSpace(Head(s)) THEN SkipSpace(Tail(s)) ELSE s

RECURSIVE TakeWord(_)
TakeWord(s) ==
    IF s = <<>> \/ IsSpace(Head(s)) THEN <<>>
    ELSE <<Head(s)>> \o TakeWord(Tail(s))

\* mutant: the text is cut at every whitespace character, as strings.Split
\* cuts at every separator
RECURSIVE Fields_Split(_)
Fields_Split(s) ==
    LET w == TakeWord(s)
    IN  IF Len(w) = Len(s) THEN <<w>>
        ELSE <<w>> \o Fields_Split(SubSeq(s, Len(w) + 2, Len(s)))

RECURSIVE Fields(_)
Fields(s) ==
    LET t == SkipSpace(s)
        w == TakeWord(t)
    IN  IF t = <<>> THEN <<>>
        ELSE <<w>> \o Fields(SubSeq(t, Len(w) + 1, Len(t)))

\* mutant: the parts are put together without the separator
RECURSIVE Join_Concat(_, _)
Join_Concat(parts, sep) ==
    IF parts = <<>> THEN <<>> ELSE parts[1] \o Join_Concat(Tail(parts), sep)

RECURSIVE Join(_, _)
Join(parts, sep) ==
    IF parts = <<>> THEN <<>>
    ELSE IF Len(parts) = 1 THEN parts[1]
    ELSE parts[1] \o sep \o Join(Tail(parts), sep)

RECURSIVE TrimRight(_)
TrimRight(s) ==
    IF s = <<>> THEN <<>>
    ELSE IF IsSpace(s[Len(s)]) THEN TrimRight(SubSeq(s, 1, Len(s) - 1)) ELSE s

TrimSpace(s) == TrimRight(SkipSpace(s))

Bearer == Str(<<"B", "e", "a", "r", "e", "r">>)
bearer == Str(<<"b", "e", "a", "r", "e", "r">>)
BEARER == Str(<<"B", "E", "A", "R", "E", "R">>)
BeArEr == Str(<<"B", "e", "A", "r", "E", "r">>)
Basic == Str(<<"B", "a", "s", "i", "c">>)

\* mutant: the scheme word is not looked at
GetBearerToken_AnyScheme(authHeader) ==
    IF authHeader = <<>>
    THEN [err |-> "authorization header not found", token |-> <<>>]
    ELSE LET parts == Fields(authHeader) IN
         IF Len(parts) < 2
         THEN [err |-> "authorization header must be in format 'Bearer TOKEN'",
               token |-> <<>>]
         ELSE LET token == TrimSpace(Join(Tail(parts), <<SP>>)) IN
              IF token = <<>>
              THEN [err |-> "token cannot be empty", token |-> <<>>]
              ELSE [err |-> "nil", token |-> token]

GetBearerToken(authHeader) ==
    IF authHeader = <<>>
    THEN [err |-> "authorization header not found", token |-> <<>>]
    ELSE LET parts == Fields(authHeader) IN
         IF Len(parts) < 2 \/ ToLower(parts[1]) # bearer
         THEN [err |-> "authorization header must be in format 'Bearer TOKEN'",
               token |-> <<>>]
         ELSE LET token == TrimSpace(Join(Tail(parts), <<SP>>)) IN
              IF token = <<>>
              THEN [err |-> "token cannot be empty", token |-> <<>>]
              ELSE [err |-> "nil", token |-> token]

-----------------------------------------------------------------------------
(* Credential hasher *)

Salts == {"salt1", "salt2"}

\* A password is a sequence of bytes.  bcrypt keys Blowfish with the bytes of
\* the password and a closing NUL, read round and round until the 18 words of
\* the P-array are filled; what lies beyond these 72 bytes is not read.
BcryptKeyBytes == 72

NUL == 0

BcryptKey(password) ==
    LET ckey == password \o <<NUL>>
    IN  [i \in 1..BcryptKeyBytes |-> ckey[((i - 1) % Len(ckey)) + 1]]

\* bcrypt with an explicit salt: the digest depends on the salt and the key
Bcrypt(password, salt) ==
    [alg |-> "bcrypt", salt |-> salt, digest |-> <<salt, BcryptKey(password)>>]

\* rnd is what the random source returns to bcrypt: "err" or a salt;
\* GenerateFromPassword refuses a password of more than 72 bytes
HashPassword(password, rnd) ==
    IF rnd = "err" \/ Len(password) > BcryptKeyBytes
    THEN [err |-> "HashingFailure", hash |-> Bcrypt(<<>>, "")]
    ELSE [err |-> "nil", hash |-> Bcrypt(password, rnd)]

CheckPasswordHash(hash, password) ==
    IF Bcrypt(password, hash.salt) = hash THEN "nil" ELSE "mismatch"

-----------------------------------------------------------------------------
(* Access token codec *)

jwtSecret == "jwt-secret-1"
Secrets == {jwtSecret, "jwt-secret-2"}

NilUUID == 0
UserIDs == 1..MaxUsers

\* uuid.UUID.String and uuid.Parse
UUIDString(id) == [text |-> "uuid", n |-> id]
UUIDParse(s) ==
    IF s.text = "uuid" THEN [err |-> "nil", id |-> s.n]
    ELSE [err |-> "invalid UUID", id |-> NilUUID]

\* mutant: rounds up to the next whole second
NumericDate_Ceil(t) == (t \div TicksPerSecond) + 1

\* jwt.NewNumericDate truncates to whole seconds
NumericDate(t) == t \div TicksPerSecond

\* mutant: the signature does not depend on the key
HS256_NoKey(claims, key) == [claims |-> claims, key |-> ""]

\* HMAC-SHA256 over the encoded claims: a deterministic function of both
HS256(claims, key) == [claims |-> claims, key |-> key]

\* mutant: the Subject claim is left at the zero identity
MakeJWT_NilSubject(userID, tokenSecret, expiresIn, t) ==
    LET claims == [iss |-> "chirpy",
                   iat |-> NumericDate(t),
                   exp |-> NumericDate(t + expiresIn),
                   sub |-> UUIDString(NilUUID)]
    IN  <<[kind |-> "jwt", claims |-> claims, sig |-> HS256(claims, tokenSecret)]>>

\* t is the value of time.Now() read inside MakeJWT; the result is the
\* compact token, a text of one symbol
MakeJWT(userID, tokenSecret, expiresIn, t) ==
    LET claims == [iss |-> "chirpy",
                   iat |-> NumericDate(t),
                   exp |-> NumericDate(t + expiresIn),
                   sub |-> UUIDString(userID)]
    IN  <<[kind |-> "jwt", claims |-> claims, sig |-> HS256(claims, tokenSecret)]>>

\* mutant: the expires-at claim is not looked at
ValidateJWT_NoExpiry(tokenString, tokenSecret, t) ==
    IF Len(tokenString) # 1 \/ tokenString[1].kind # "jwt"
    THEN [err |-> "token is malformed", userID |-> NilUUID]
    ELSE LET tok == tokenString[1] IN
         IF tok.sig # HS256(tok.claims, tokenSecret)
         THEN [err |-> "signature is invalid", userID |-> NilUUID]
         ELSE LET parsed == UUIDParse(tok.claims.sub) IN
              IF parsed.err # "nil"
              THEN [err |-> parsed.err, userID |-> NilUUID]
              ELSE [err |-> "nil", userID |-> parsed.id]

\* t is the time of the validation
ValidateJWT(tokenString, tokenSecret, t) ==
    IF Len(tokenString) # 1 \/ tokenString[1].kind # "jwt"
    THEN [err |-> "token is malformed", userID |-> NilUUID]
    ELSE LET tok == tokenString[1] IN
         IF tok.sig # HS256(tok.claims, tokenSecret)
         THEN [err |-> "signature is invalid", userID |-> NilUUID]
         ELSE IF ~(t < tok.claims.exp * TicksPerSecond)
         THEN [err |-> "token is expired", userID |-> NilUUID]
         ELSE LET parsed == UUIDParse(tok.claims.sub) IN
              IF parsed.err # "nil"
              THEN [err |-> parsed.err, userID |-> NilUUID]
              ELSE [err |-> "nil", userID |-> parsed.id]

-----------------------------------------------------------------------------
(* Refresh token issuer *)

RefreshTokenBytes == 32

HexDigits == <<"0", "1", "2", "3", "4", "5", "6", "7",
               "8", "9", "a", "b", "c", "d", "e", "f">>

\* mutant: one digit for each byte
HexEncode_Nibble(bytes) ==
    [i \in 1..Len(bytes) |-> Ch(HexDigits[(bytes[i] % 16) + 1])]

\* hex.EncodeToString
HexEncode(bytes) ==
    [i \in 1..(2 * Len(bytes)) |->
        LET b == bytes[(i + 1) \div 2]
        IN  Ch(HexDigits[(IF i % 2 = 1 THEN b \div 16 ELSE b % 16) + 1])]

\* The text hex.EncodeToString(bytes) kept as one symbol: it stands for the
\* characters HexEncode(bytes), none of which is whitespace
Hex(bytes) == [kind |-> "hex", bytes |-> bytes]

\* the characters of a text, with every hex block written out
RECURSIVE Chars(_)
Chars(s) ==
    IF s = <<>> THEN <<>>
    ELSE (IF Head(s).kind = "hex" THEN HexEncode(Head(s).bytes) ELSE <<Head(s)>>)
         \o Chars(Tail(s))

\* what rand.Read may leave in the buffer: MaxTokens distinct fillings
RandRead ==
    {[i \in 1..RefreshTokenBytes |-> (k * 85 + i) % 256] : k \in 1..MaxTokens}

\* rnd is the outcome of rand.Read: <<>> for an error, else the filled buffer
MakeRefreshToken(rnd) ==
    IF rnd = <<>>
    THEN [err |-> "GenerationFailure", token |-> <<>>]
    ELSE [err |-> "nil", token |-> <<Hex(rnd)>>]

RefreshTokenSpace == {MakeRefreshToken(b).token : b \in RandRead}

-----------------------------------------------------------------------------
(* Store (database.Queries) *)

NoUser == [id |-> NilUUID, email |-> "", hashedPassword |-> Bcrypt(<<>>, ""),
           isChirpyRed |-> FALSE]

UserRow(id) == [id |-> id, email |-> users[id].email,
                hashedPassword |-> users[id].hashedPassword,
                isChirpyRed |-> users[id].isChirpyRed]

\* INSERT INTO users; the id is generated by the store, emails are unique
CreateUser(params, fault) ==
    LET free == UserIDs \ DOMAIN users
        id == CHOOSE i \in free : \A j \in free : i <= j
    IN  IF fault \/ free = {} \/ \E u \in DOMAIN users : users[u].email = params.email
        THEN [err |-> "StorageFailure", user |-> NoUser, users |-> users]
        ELSE LET row == [email |-> params.email,
                         hashedPassword |-> params.hashedPassword,
                         isChirpyRed |-> FALSE]
             IN  [err |-> "nil",
                  user |-> [id |-> id, email |-> row.email,
                            hashedPassword |-> row.hashedPassword,
                            isChirpyRed |-> FALSE],
                  users |-> (id :> row) @@ users]

\* SELECT ... FROM users WHERE email = $1
GetUserByEmail(email, fault) ==
    IF fault \/ ~(\E u \in DOMAIN users : users[u].email = email)
    THEN [err |-> IF fault THEN "StorageFailure" ELSE "NotFound", user |-> NoUser]
    ELSE [err |-> "nil",
          user |-> UserRow(CHOOSE u \in DOMAIN users : users[u].email = email)]

\* UPDATE users SET email, hashed_password WHERE id = $1 RETURNING *
UpdateUser(params, fault) ==
    IF \/ fault
       \/ params.id \notin DOMAIN users
       \/ \E u \in DOMAIN users : u # params.id /\ users[u].email = params.email
    THEN [err |-> IF fault \/ params.id \in DOMAIN users
                  THEN "StorageFailure" ELSE "NotFound",
          user |-> NoUser, users |-> users]
    ELSE LET row == [users[params.id] EXCEPT !.email = params.email,
                                             !.hashedPassword = params.hashedPassword]
         IN  [err |-> "nil",
              user |-> [id |-> params.id, email |-> row.email,
                        hashedPassword |-> row.hashedPassword,
                        isChirpyRed |-> row.isChirpyRed],
              users |-> [users EXCEPT ![params.id] = row]]

\* INSERT INTO refresh_tokens; the token is the key, t is the store's NOW()
CreateRefreshToken(params, t, fault) ==
    IF fault \/ params.token \in DOMAIN refreshTokens
    THEN [err |-> "StorageFailure", refreshTokens |-> refreshTokens]
    ELSE [err |-> "nil",
          refreshTokens |->
              (params.token :> [userID |-> params.userID,
                                createdAt |-> t,
                                expiresAt |-> params.expiresAt,
                                revokedAt |-> NullTime]) @@ refreshTokens]

\* a record is usable at t iff it is not revoked and t is before its expiry
Active(row, t) == row.revokedAt = NullTime /\ t < row.expiresAt

\* mutant: the lookup does not filter revoked records out
GetUserFromRefreshToken_Revoked(token, t, fault) ==
    IF fault
    THEN [err |-> "StorageFailure", user |-> NoUser]
    ELSE IF \/ token \notin DOMAIN refreshTokens
            \/ ~(t < refreshTokens[token].expiresAt)
            \/ refreshTokens[token].userID \notin DOMAIN users
    THEN [err |-> "Invalid", user |-> NoUser]
    ELSE [err |-> "nil", user |-> UserRow(refreshTokens[token].userID)]

\* resolveActiveOwner: the user owning a record that exists, is not revoked
\* and is not expired
GetUserFromRefreshToken(token, t, fault) ==
    IF fault
    THEN [err |-> "StorageFailure", user |-> NoUser]
    ELSE IF \/ token \notin DOMAIN refreshTokens
            \/ ~Active(refreshTokens[token], t)
            \/ refreshTokens[token].userID \notin DOMAIN users
    THEN [err |-> "Invalid", user |-> NoUser]
    ELSE [err |-> "nil", user |-> UserRow(refreshTokens[token].userID)]

\* revoke: stamps the matching record; NotFound without one.  On a record
\* that is already revoked the second call re-stamps it or leaves it, so the
\* outcomes are a set.
RevokeRefreshToken(token, t, fault) ==
    IF fault
    THEN {[err |-> "StorageFailure", refreshTokens |-> refreshTokens]}
    ELSE IF token \notin DOMAIN refreshTokens
    THEN {[err |-> "NotFound", refreshTokens |-> refreshTokens]}
    ELSE {[err |-> "nil",
           refreshTokens |-> [refreshTokens EXCEPT ![token].revokedAt = t]]}
         \cup
         (IF refreshTokens[token].revokedAt # NullTime
          THEN {[err |-> "nil", refreshTokens |-> refreshTokens]}
          ELSE {})

\* INSERT INTO chirps; the id is generated by the store and the author must
\* be a row of users.  Of a row, the text and the author are kept.
CreateChirp(params, fault) ==
    LET free == (1..MaxChirps) \ DOMAIN chirps
        id == CHOOSE i \in free : \A j \in free : i <= j
    IN  IF fault \/ free = {} \/ params.userID \notin DOMAIN users
        THEN [err |-> "StorageFailure", userID |-> NilUUID, chirps |-> chirps]
        ELSE [err |-> "nil", userID |-> params.userID,
              chirps |-> (id :> [body |-> params.body, userID |-> params.userID])
                         @@ chirps]

\* SELECT ... FROM chirps WHERE id = $1
GetChirpByID(id, fault) ==
    IF fault \/ id \notin DOMAIN chirps
    THEN [err |-> IF fault THEN "StorageFailure" ELSE "NotFound", userID |-> NilUUID]
    ELSE [err |-> "nil", userID |-> chirps[id].userID]

\* DELETE FROM chirps WHERE id = $1
DeleteChirp(id, fault) ==
    IF fault
    THEN [err |-> "StorageFailure", chirps |-> chirps]
    ELSE [err |-> "nil",
          chirps |-> [c \in DOMAIN chirps \ {id} |-> chirps[c]]]

-----------------------------------------------------------------------------
(* Requests and responses *)

EmailOf(i) == <<"a@b.com", "c@d.com", "e@f.com", "g@h.com">>[i]
\* the bytes of "secret1" .. "secret4" and of "newsecret"
PasswordOf(i) == <<115, 101, 99, 114, 101, 116, 48 + i>>
UnknownEmail == "nobody@b.com"
NewEmail == "new@b.com"
NewPassword == <<110, 101, 119, 115, 101, 99, 114, 101, 116>>

Body(email, password) == [ok |-> TRUE, email |-> email, password |-> password]
NoBody == [ok |-> FALSE, email |-> "", password |-> <<>>]

\* JSON bodies sent to login: one that does not decode, empty fields, every
\* registered email with every registered password, an unregistered email,
\* and the credentials a profile update can set
LoginBodies ==
    {NoBody, Body("", PasswordOf(1)), Body(EmailOf(1), <<>>),
     Body(UnknownEmail, PasswordOf(1)),
     Body(NewEmail, NewPassword), Body(EmailOf(1), NewPassword)}
    \cup {Body(EmailOf(i), PasswordOf(j)) : i, j \in UserIDs}

UpdateBodies ==
    {NoBody, Body("", NewPassword), Body(NewEmail, <<>>), Body(NewEmail, NewPassword)}

\* Authorization header values carrying the text tok: the plain form, and
\* forms with another letter case, irregular spacing or another scheme
HeadersFor(tok) == {Bearer \o <<SP>> \o tok}

OddHeadersFor(tok) ==
    { BEARER \o <<SP, TAB>> \o tok \o <<SP>>,
      Basic \o <<SP>> \o tok }

NoRnd == [salt |-> "", bytes |-> <<>>, drift |-> 0]

Request(op, method, header, body, fault, rnd) ==
    [op |-> op, method |-> method, header |-> header, body |-> body,
     fault |-> fault, rnd |-> rnd]

\* a response: status line, ErrorResponse text, and the fields of a success
Reply(status, error, token, refreshToken, userID, email) ==
    [status |-> status, error |-> error, token |-> token,
     refreshToken |-> refreshToken, userID |-> userID, email |-> email]

Status(code) == Reply(code, "", <<>>, <<>>, NilUUID, "")
Error(code, msg) == Reply(code, msg, <<>>, <<>>, NilUUID, "")

\* what serving a request leaves behind: the response, the error the handler
\* ended on, the bearer token it extracted, and the stores and clock
Outcome(r, err, tok) ==
    [resp |-> r, err |-> err, bearer |-> tok,
     users |-> users, refreshTokens |-> refreshTokens, now |-> now,
     chirps |-> chirps, cfg |-> cfg]

-----------------------------------------------------------------------------
(* Handlers: each maps a request to the set of its possible outcomes *)

handlerCreateUser(r) ==
    IF ~r.body.ok
    THEN {Outcome(Error(400, "Something went wrong"), "decode", <<>>)}
    ELSE IF r.body.email = ""
    THEN {Outcome(Error(400, "Email is required"), "validation", <<>>)}
    ELSE IF r.body.password = <<>>
    THEN {Outcome(Error(400, "Password is required"), "validation", <<>>)}
    ELSE LET hashed == HashPassword(r.body.password,
                           IF r.fault = "HashPassword" THEN "err" ELSE r.rnd.salt)
         IN
         IF hashed.err # "nil"
         THEN {Outcome(Error(500, "Something went wrong"), hashed.err, <<>>)}
         ELSE LET created == CreateUser([email |-> r.body.email,
                                         hashedPassword |-> hashed.hash],
                                        r.fault = "CreateUser")
              IN
              IF created.err # "nil"
              THEN {Outcome(Error(500, "Something went wrong"), created.err, <<>>)}
              ELSE {[Outcome(Reply(201, "", <<>>, <<>>, created.user.id,
                                   created.user.email), "nil", <<>>)
                        EXCEPT !.users = created.users]}

\* mutant: an unregistered email is answered 404
handlerLogin_NotFound(r) ==
    IF r.method # "POST"
    THEN {Outcome(Status(405), "method", <<>>)}
    ELSE IF ~r.body.ok
    THEN {Outcome(Error(400, "Something went wrong"), "decode", <<>>)}
    ELSE IF r.body.email = "" \/ r.body.password = <<>>
    THEN {Outcome(Error(401, "Incorrect email or password"), "validation", <<>>)}
    ELSE LET found == GetUserByEmail(r.body.email, r.fault = "GetUserByEmail") IN
         IF found.err # "nil"
         THEN {Outcome(Error(404, "User not found"), found.err, <<>>)}
         ELSE IF CheckPasswordHash(found.user.hashedPassword, r.body.password) # "nil"
         THEN {Outcome(Error(401, "Incorrect email or password"), "mismatch", <<>>)}
         ELSE LET dbUser == found.user
                  accessToken == MakeJWT(dbUser.id, jwtSecret, Hour, now)
                  made == MakeRefreshToken(IF r.fault = "MakeRefreshToken"
                                           THEN <<>> ELSE r.rnd.bytes)
                  later == now + r.rnd.drift
                  expiresAt == later + RefreshTTL
                  stored == CreateRefreshToken([token |-> made.token,
                                                userID |-> dbUser.id,
                                                expiresAt |-> expiresAt],
                                               later,
                                               r.fault = "CreateRefreshToken")
              IN
              IF made.err # "nil"
              THEN {Outcome(Error(500, "Something went wrong"), made.err, <<>>)}
              ELSE IF stored.err # "nil"
              THEN {[Outcome(Error(500, "Something went wrong"), stored.err, <<>>)
                        EXCEPT !.now = later]}
              ELSE {[Outcome(Reply(200, "", accessToken, made.token,
                                   dbUser.id, dbUser.email), "nil", <<>>)
                        EXCEPT !.refreshTokens = stored.refreshTokens,
                               !.now = later]}

\* mutant: a token value that is already stored is written over
handlerLogin_Upsert(r) ==
    IF r.method # "POST"
    THEN {Outcome(Status(405), "method", <<>>)}
    ELSE IF ~r.body.ok
    THEN {Outcome(Error(400, "Something went wrong"), "decode", <<>>)}
    ELSE IF r.body.email = "" \/ r.body.password = <<>>
    THEN {Outcome(Error(401, "Incorrect email or password"), "validation", <<>>)}
    ELSE LET found == GetUserByEmail(r.body.email, r.fault = "GetUserByEmail") IN
         IF found.err # "nil"
         THEN {Outcome(Error(401, "Incorrect email or password"), found.err, <<>>)}
         ELSE IF CheckPasswordHash(found.user.hashedPassword, r.body.password) # "nil"
         THEN {Outcome(Error(401, "Incorrect email or password"), "mismatch", <<>>)}
         ELSE LET dbUser == found.user
                  accessToken == MakeJWT(dbUser.id, jwtSecret, Hour, now)
                  made == MakeRefreshToken(IF r.fault = "MakeRefreshToken"
                                           THEN <<>> ELSE r.rnd.bytes)
                  later == now + r.rnd.drift
                  expiresAt == later + RefreshTTL
                  row == [userID |-> dbUser.id, createdAt |-> later,
                          expiresAt |-> expiresAt, revokedAt |-> NullTime]
              IN
              IF made.err # "nil"
              THEN {Outcome(Error(500, "Something went wrong"), made.err, <<>>)}
              ELSE IF r.fault = "CreateRefreshToken"
              THEN {[Outcome(Error(500, "Something went wrong"),
                             "StorageFailure", <<>>)
                        EXCEPT !.now = later]}
              ELSE {[Outcome(Reply(200, "", accessToken, made.token,
                                   dbUser.id, dbUser.email), "nil", <<>>)
                        EXCEPT !.refreshTokens = (made.token :> row) @@ refreshTokens,
                               !.now = later]}

\* mutant: the error of the insert is not looked at
handlerLogin_Unstored(r) ==
    IF r.method # "POST"
    THEN {Outcome(Status(405), "method", <<>>)}
    ELSE IF ~r.body.ok
    THEN {Outcome(Error(400, "Something went wrong"), "decode", <<>>)}
    ELSE IF r.body.email = "" \/ r.body.password = <<>>
    THEN {Outcome(Error(401, "Incorrect email or password"), "validation", <<>>)}
    ELSE LET found == GetUserByEmail(r.body.email, r.fault = "GetUserByEmail") IN
         IF found.err # "nil"
         THEN {Outcome(Error(401, "Incorrect email or password"), found.err, <<>>)}
         ELSE IF CheckPasswordHash(found.user.hashedPassword, r.body.password) # "nil"
         THEN {Outcome(Error(401, "Incorrect email or password"), "mismatch", <<>>)}
         ELSE LET dbUser == found.user
                  accessToken == MakeJWT(dbUser.id, jwtSecret, Hour, now)
                  made == MakeRefreshToken(IF r.fault = "MakeRefreshToken"
                                           THEN <<>> ELSE r.rnd.bytes)
                  \* the second time.Now() is read r.rnd.drift ticks later
                  later == now + r.rnd.drift
                  expiresAt == later + RefreshTTL
                  stored == CreateRefreshToken([token |-> made.token,
                                                userID |-> dbUser.id,
                                                expiresAt |-> expiresAt],
                                               later,
                                               r.fault = "CreateRefreshToken")
              IN
              IF made.err # "nil"
              THEN {Outcome(Error(500, "Something went wrong"), made.err, <<>>)}
              ELSE {[Outcome(Reply(200, "", accessToken, made.token,
                                   dbUser.id, dbUser.email), "nil", <<>>)
                        EXCEPT !.refreshTokens = stored.refreshTokens,
                               !.now = later]}

handlerLogin(r) ==
    IF r.method # "POST"
    THEN {Outcome(Status(405), "method", <<>>)}
    ELSE IF ~r.body.ok
    THEN {Outcome(Error(400, "Something went wrong"), "decode", <<>>)}
    ELSE IF r.body.email = "" \/ r.body.password = <<>>
    THEN {Outcome(Error(401, "Incorrect email or password"), "validation", <<>>)}
    ELSE LET found == GetUserByEmail(r.body.email, r.fault = "GetUserByEmail") IN
         IF found.err # "nil"
         THEN {Outcome(Error(401, "Incorrect email or password"), found.err, <<>>)}
         ELSE IF CheckPasswordHash(found.user.hashedPassword, r.body.password) # "nil"
         THEN {Outcome(Error(401, "Incorrect email or password"), "mismatch", <<>>)}
         ELSE LET dbUser == found.user
                  accessToken == MakeJWT(dbUser.id, jwtSecret, Hour, now)
                  made == MakeRefreshToken(IF r.fault = "MakeRefreshToken"
                                           THEN <<>> ELSE r.rnd.bytes)
                  \* the second time.Now() is read r.rnd.drift ticks later
                  later == now + r.rnd.drift
                  expiresAt == later + RefreshTTL
                  stored == CreateRefreshToken([token |-> made.token,
                                                userID |-> dbUser.id,
                                                expiresAt |-> expiresAt],
                                               later,
                                               r.fault = "CreateRefreshToken")
              IN
              IF made.err # "nil"
              THEN {Outcome(Error(500, "Something went wrong"), made.err, <<>>)}
              ELSE IF stored.err # "nil"
              THEN {[Outcome(Error(500, "Something went wrong"), stored.err, <<>>)
                        EXCEPT !.now = later]}
              ELSE {[Outcome(Reply(200, "", accessToken, made.token,
                                   dbUser.id, dbUser.email), "nil", <<>>)
                        EXCEPT !.refreshTokens = stored.refreshTokens,
                               !.now = later]}

\* the earlier handlerLogin of handlers_users.go: no refresh token, and a
\* lifetime the client may shorten.  The requested seconds are small enough
\* here for the multiplication by time.Second not to wrap.
handlerLogin_users(r) ==
    IF r.method # "POST"
    THEN {Outcome(Status(405), "method", <<>>)}
    ELSE IF ~r.body.ok
    THEN {Outcome(Error(400, "Something went wrong"), "decode", <<>>)}
    ELSE IF r.body.email = "" \/ r.body.password = <<>>
    THEN {Outcome(Error(401, "Incorrect email or password"), "validation", <<>>)}
    ELSE LET found == GetUserByEmail(r.body.email, r.fault = "GetUserByEmail") IN
         IF found.err # "nil"
         THEN {Outcome(Error(401, "Incorrect email or password"), found.err, <<>>)}
         ELSE IF CheckPasswordHash(found.user.hashedPassword, r.body.password) # "nil"
         THEN {Outcome(Error(401, "Incorrect email or password"), "mismatch", <<>>)}
         ELSE LET requestedDuration ==
                      Mul64(r.body.expiresInSeconds[1], I64(NanosPerSecond))
                  expiresIn ==
                      IF r.body.expiresInSeconds = <<>> THEN Hour
                      ELSE IF Less64(HourNanos, requestedDuration) THEN Hour
                      ELSE IF Less64(I64(0), requestedDuration)
                      THEN TicksOf(requestedDuration)
                      ELSE Hour
              IN  {Outcome(Reply(200, "",
                                 MakeJWT(found.user.id, jwtSecret, expiresIn, now),
                                 <<>>, found.user.id, found.user.email),
                           "nil", <<>>)}

\* mutant: the error of the lookup is not checked
handlerRefresh_NoErrCheck(r) ==
    IF r.method # "POST"
    THEN {Outcome(Status(405), "method", <<>>)}
    ELSE LET bearerTok == GetBearerToken(r.header) IN
         IF bearerTok.err # "nil"
         THEN {Outcome(Error(401, "Unauthorized"), bearerTok.err, <<>>)}
         ELSE LET found == GetUserFromRefreshToken(bearerTok.token, now,
                               r.fault = "GetUserFromRefreshToken")
              IN  {Outcome(Reply(200, "",
                                 MakeJWT(found.user.id, jwtSecret, Hour, now),
                                 <<>>, NilUUID, ""),
                           found.err, bearerTok.token)}

\* mutant: a successful refresh retires the presented refresh token
handlerRefresh_Rotate(r) ==
    IF r.method # "POST"
    THEN {Outcome(Status(405), "method", <<>>)}
    ELSE LET bearerTok == GetBearerToken(r.header) IN
         IF bearerTok.err # "nil"
         THEN {Outcome(Error(401, "Unauthorized"), bearerTok.err, <<>>)}
         ELSE LET found == GetUserFromRefreshToken(bearerTok.token, now,
                               r.fault = "GetUserFromRefreshToken")
              IN
              IF found.err # "nil"
              THEN {Outcome(Error(401, "Unauthorized"), found.err, bearerTok.token)}
              ELSE {[Outcome(Reply(200, "",
                                   MakeJWT(found.user.id, jwtSecret, Hour, now),
                                   <<>>, NilUUID, ""),
                             "nil", bearerTok.token)
                        EXCEPT !.refreshTokens =
                            [refreshTokens EXCEPT ![bearerTok.token].revokedAt = now]]}

\* mutant: a valid access token is taken in place of a refresh token
handlerRefresh_AnyKind(r) ==
    IF r.method # "POST"
    THEN {Outcome(Status(405), "method", <<>>)}
    ELSE LET bearerTok == GetBearerToken(r.header) IN
         IF bearerTok.err # "nil"
         THEN {Outcome(Error(401, "Unauthorized"), bearerTok.err, <<>>)}
         ELSE LET found == GetUserFromRefreshToken(bearerTok.token, now,
                               r.fault = "GetUserFromRefreshToken")
                  valid == ValidateJWT(bearerTok.token, jwtSecret, now)
              IN
              IF found.err # "nil" /\ valid.err # "nil"
              THEN {Outcome(Error(401, "Unauthorized"), found.err, bearerTok.token)}
              ELSE {Outcome(Reply(200, "",
                                  MakeJWT(IF found.err = "nil" THEN found.user.id
                                          ELSE valid.userID, jwtSecret, Hour, now),
                                  <<>>, NilUUID, ""),
                            "nil", bearerTok.token)}

handlerRefresh(r) ==
    IF r.method # "POST"
    THEN {Outcome(Status(405), "method", <<>>)}
    ELSE LET bearerTok == GetBearerToken(r.header) IN
         IF bearerTok.err # "nil"
         THEN {Outcome(Error(401, "Unauthorized"), bearerTok.err, <<>>)}
         ELSE LET found == GetUserFromRefreshToken(bearerTok.token, now,
                               r.fault = "GetUserFromRefreshToken")
              IN
              IF found.err # "nil"
              THEN {Outcome(Error(401, "Unauthorized"), found.err, bearerTok.token)}
              ELSE {Outcome(Reply(200, "",
                                  MakeJWT(found.user.id, jwtSecret, Hour, now),
                                  <<>>, NilUUID, ""),
                            "nil", bearerTok.token)}

\* mutant: 204 is written without the store being asked to revoke
handlerRevoke_NoStore(r) ==
    IF r.method # "POST"
    THEN {Outcome(Status(405), "method", <<>>)}
    ELSE LET bearerTok == GetBearerToken(r.header) IN
         IF bearerTok.err # "nil"
         THEN {Outcome(Status(401), bearerTok.err, <<>>)}
         ELSE {Outcome(Status(204), "nil", bearerTok.token)}

\* mutant: the error of the store is not checked
handlerRevoke_IgnoreErr(r) ==
    IF r.method # "POST"
    THEN {Outcome(Status(405), "method", <<>>)}
    ELSE LET bearerTok == GetBearerToken(r.header) IN
         IF bearerTok.err # "nil"
         THEN {Outcome(Status(401), bearerTok.err, <<>>)}
         ELSE {[Outcome(Status(204), revoked.err, bearerTok.token)
                   EXCEPT !.refreshTokens = revoked.refreshTokens] :
                   revoked \in RevokeRefreshToken(bearerTok.token, now,
                                   r.fault = "RevokeRefreshToken")}

\* mutant: a token that is already revoked is refused
handlerRevoke_Strict(r) ==
    IF r.method # "POST"
    THEN {Outcome(Status(405), "method", <<>>)}
    ELSE LET bearerTok == GetBearerToken(r.header) IN
         IF bearerTok.err # "nil"
         THEN {Outcome(Status(401), bearerTok.err, <<>>)}
         ELSE IF /\ bearerTok.token \in DOMAIN refreshTokens
                 /\ refreshTokens[bearerTok.token].revokedAt # NullTime
         THEN {Outcome(Status(500), "already revoked", bearerTok.token)}
         ELSE {IF revoked.err # "nil"
               THEN Outcome(Status(500), revoked.err, bearerTok.token)
               ELSE [Outcome(Status(204), "nil", bearerTok.token)
                        EXCEPT !.refreshTokens = revoked.refreshTokens] :
                   revoked \in RevokeRefreshToken(bearerTok.token, now,
                                   r.fault = "RevokeRefreshToken")}

\* mutant: a revoke ends every session of the owner of the token
handlerRevoke_AllOfUser(r) ==
    IF r.method # "POST"
    THEN {Outcome(Status(405), "method", <<>>)}
    ELSE LET bearerTok == GetBearerToken(r.header) IN
         IF bearerTok.err # "nil"
         THEN {Outcome(Status(401), bearerTok.err, <<>>)}
         ELSE {IF revoked.err # "nil"
               THEN Outcome(Status(500), revoked.err, bearerTok.token)
               ELSE [Outcome(Status(204), "nil", bearerTok.token)
                        EXCEPT !.refreshTokens =
                            [t \in DOMAIN refreshTokens |->
                                IF refreshTokens[t].userID =
                                       refreshTokens[bearerTok.token].userID
                                THEN [refreshTokens[t] EXCEPT !.revokedAt = now]
                                ELSE refreshTokens[t]]] :
                   revoked \in RevokeRefreshToken(bearerTok.token, now,
                                   r.fault = "RevokeRefreshToken")}

handlerRevoke(r) ==
    IF r.method # "POST"
    THEN {Outcome(Status(405), "method", <<>>)}
    ELSE LET bearerTok == GetBearerToken(r.header) IN
         IF bearerTok.err # "nil"
         THEN {Outcome(Status(401), bearerTok.err, <<>>)}
         ELSE {IF revoked.err # "nil"
               THEN Outcome(Status(500), revoked.err, bearerTok.token)
               ELSE [Outcome(Status(204), "nil", bearerTok.token)
                        EXCEPT !.refreshTokens = revoked.refreshTokens] :
                   revoked \in RevokeRefreshToken(bearerTok.token, now,
                                   r.fault = "RevokeRefreshToken")}

\* mutant: a successful update retires the refresh tokens of the user
handlerUpdateUser_Retire(r) ==
    IF r.method # "PUT"
    THEN {Outcome(Status(405), "method", <<>>)}
    ELSE LET bearerTok == GetBearerToken(r.header) IN
         IF bearerTok.err # "nil"
         THEN {Outcome(Error(401, "Unauthorized"), bearerTok.err, <<>>)}
         ELSE LET valid == ValidateJWT(bearerTok.token, jwtSecret, now)
                  tok == bearerTok.token
         IN
         IF valid.err # "nil"
         THEN {Outcome(Error(401, "Unauthorized"), valid.err, tok)}
         ELSE IF ~r.body.ok
         THEN {Outcome(Error(400, "Something went wrong"), "decode", tok)}
         ELSE IF r.body.email = ""
         THEN {Outcome(Error(400, "Email is required"), "validation", tok)}
         ELSE IF r.body.password = <<>>
         THEN {Outcome(Error(400, "Password is required"), "validation", tok)}
         ELSE LET hashed == HashPassword(r.body.password,
                                IF r.fault = "HashPassword" THEN "err" ELSE r.rnd.salt)
              IN
              IF hashed.err # "nil"
              THEN {Outcome(Error(500, "Something went wrong"), hashed.err, tok)}
              ELSE LET updated == UpdateUser([id |-> valid.userID,
                                              email |-> r.body.email,
                                              hashedPassword |-> hashed.hash],
                                             r.fault = "UpdateUser")
                   IN
                   IF updated.err # "nil"
                   THEN {Outcome(Error(500, "Something went wrong"), updated.err, tok)}
                   ELSE {[Outcome(Reply(200, "", <<>>, <<>>, updated.user.id,
                                        updated.user.email), "nil", tok)
                             EXCEPT !.users = updated.users,
                                    !.refreshTokens =
                                        [t \in DOMAIN refreshTokens |->
                                            IF refreshTokens[t].userID = valid.userID
                                            THEN [refreshTokens[t] EXCEPT !.revokedAt = now]
                                            ELSE refreshTokens[t]]]}

\* mutant: the password is stored as it came
handlerUpdateUser_Plain(r) ==
    IF r.method # "PUT"
    THEN {Outcome(Status(405), "method", <<>>)}
    ELSE LET bearerTok == GetBearerToken(r.header) IN
         IF bearerTok.err # "nil"
         THEN {Outcome(Error(401, "Unauthorized"), bearerTok.err, <<>>)}
         ELSE LET valid == ValidateJWT(bearerTok.token, jwtSecret, now)
                  tok == bearerTok.token
         IN
         IF valid.err # "nil"
         THEN {Outcome(Error(401, "Unauthorized"), valid.err, tok)}
         ELSE IF ~r.body.ok
         THEN {Outcome(Error(400, "Something went wrong"), "decode", tok)}
         ELSE IF r.body.email = ""
         THEN {Outcome(Error(400, "Email is required"), "validation", tok)}
         ELSE IF r.body.password = <<>>
         THEN {Outcome(Error(400, "Password is required"), "validation", tok)}
         ELSE LET hashed == HashPassword(r.body.password,
                                IF r.fault = "HashPassword" THEN "err" ELSE r.rnd.salt)
              IN
              IF hashed.err # "nil"
              THEN {Outcome(Error(500, "Something went wrong"), hashed.err, tok)}
              ELSE LET updated == UpdateUser([id |-> valid.userID,
                                              email |-> r.body.email,
                                              hashedPassword |->
                                                  [alg |-> "plain", salt |-> "",
                                                   digest |-> <<"", r.body.password>>]],
                                             r.fault = "UpdateUser")
                   IN
                   IF updated.err # "nil"
                   THEN {Outcome(Error(500, "Something went wrong"), updated.err, tok)}
                   ELSE {[Outcome(Reply(200, "", <<>>, <<>>, updated.user.id,
                                        updated.user.email), "nil", tok)
                             EXCEPT !.users = updated.users]}

handlerUpdateUser(r) ==
    IF r.method # "PUT"
    THEN {Outcome(Status(405), "method", <<>>)}
    ELSE LET bearerTok == GetBearerToken(r.header) IN
         IF bearerTok.err # "nil"
         THEN {Outcome(Error(401, "Unauthorized"), bearerTok.err, <<>>)}
         ELSE LET valid == ValidateJWT(bearerTok.token, jwtSecret, now)
                  tok == bearerTok.token
         IN
         IF valid.err # "nil"
         THEN {Outcome(Error(401, "Unauthorized"), valid.err, tok)}
         ELSE IF ~r.body.ok
         THEN {Outcome(Error(400, "Something went wrong"), "decode", tok)}
         ELSE IF r.body.email = ""
         THEN {Outcome(Error(400, "Email is required"), "validation", tok)}
         ELSE IF r.body.password = <<>>
         THEN {Outcome(Error(400, "Password is required"), "validation", tok)}
         ELSE LET hashed == HashPassword(r.body.password,
                                IF r.fault = "HashPassword" THEN "err" ELSE r.rnd.salt)
              IN
              IF hashed.err # "nil"
              THEN {Outcome(Error(500, "Something went wrong"), hashed.err, tok)}
              ELSE LET updated == UpdateUser([id |-> valid.userID,
                                              email |-> r.body.email,
                                              hashedPassword |-> hashed.hash],
                                             r.fault = "UpdateUser")
                   IN
                   IF updated.err # "nil"
                   THEN {Outcome(Error(500, "Something went wrong"), updated.err, tok)}
                   ELSE {[Outcome(Reply(200, "", <<>>, <<>>, updated.user.id,
                                        updated.user.email), "nil", tok)
                             EXCEPT !.users = updated.users]}

MaxChirpLength == 140

profaneWords ==
    {Str(<<"k", "e", "r", "f", "u", "f", "f", "l", "e">>),
     Str(<<"s", "h", "a", "r", "b", "e", "r", "t">>),
     Str(<<"f", "o", "r", "n", "a", "x">>)}

\* mutant: a word is compared as it is written
cleanProfanity_Exact(text) ==
    LET words == Fields(text)
        cleaned == [i \in 1..Len(words) |->
                       IF words[i] \in profaneWords
                       THEN Str(<<"*", "*", "*", "*">>)
                       ELSE words[i]]
    IN  Join(cleaned, <<SP>>)

cleanProfanity(text) ==
    LET words == Fields(text)
        cleaned == [i \in 1..Len(words) |->
                       IF ToLower(words[i]) \in profaneWords
                       THEN Str(<<"*", "*", "*", "*">>)
                       ELSE words[i]]
    IN  Join(cleaned, <<SP>>)

\* mutant: the author is taken from the body when it names one
handlerCreateChirp_BodyAuthor(r) ==
    LET bearerTok == GetBearerToken(r.header) IN
    IF bearerTok.err # "nil"
    THEN {Outcome(Error(401, "Unauthorized"), bearerTok.err, <<>>)}
    ELSE LET valid == ValidateJWT(bearerTok.token, jwtSecret, now)
             tok == bearerTok.token
    IN
    IF valid.err # "nil"
    THEN {Outcome(Error(401, "Unauthorized"), valid.err, tok)}
    ELSE IF ~r.body.ok
    THEN {Outcome(Error(400, "Something went wrong"), "decode", tok)}
    ELSE IF r.body.text = <<>>
    THEN {Outcome(Error(400, "Body is required"), "validation", tok)}
    ELSE IF Len(r.body.text) > MaxChirpLength
    THEN {Outcome(Error(400, "Chirp is too long"), "validation", tok)}
    ELSE LET created == CreateChirp([body |-> cleanProfanity(r.body.text),
                                     userID |-> IF r.body.user_id # NilUUID
                                                THEN r.body.user_id
                                                ELSE valid.userID],
                                    r.fault = "CreateChirp")
         IN
         IF created.err # "nil"
         THEN {Outcome(Error(500, "Something went wrong"), created.err, tok)}
         ELSE {[Outcome(Reply(201, "", <<>>, <<>>, created.userID, ""), "nil", tok)
                   EXCEPT !.chirps = created.chirps]}

\* the body of a chirp request is [ok, text, user_id], of which requestBody
\* has a field for the text only
handlerCreateChirp(r) ==
    LET bearerTok == GetBearerToken(r.header) IN
    IF bearerTok.err # "nil"
    THEN {Outcome(Error(401, "Unauthorized"), bearerTok.err, <<>>)}
    ELSE LET valid == ValidateJWT(bearerTok.token, jwtSecret, now)
             tok == bearerTok.token
    IN
    IF valid.err # "nil"
    THEN {Outcome(Error(401, "Unauthorized"), valid.err, tok)}
    ELSE IF ~r.body.ok
    THEN {Outcome(Error(400, "Something went wrong"), "decode", tok)}
    ELSE IF r.body.text = <<>>
    THEN {Outcome(Error(400, "Body is required"), "validation", tok)}
    ELSE IF Len(r.body.text) > MaxChirpLength
    THEN {Outcome(Error(400, "Chirp is too long"), "validation", tok)}
    ELSE LET created == CreateChirp([body |-> cleanProfanity(r.body.text),
                                     userID |-> valid.userID],
                                    r.fault = "CreateChirp")
         IN
         IF created.err # "nil"
         THEN {Outcome(Error(500, "Something went wrong"), created.err, tok)}
         ELSE {[Outcome(Reply(201, "", <<>>, <<>>, created.userID, ""), "nil", tok)
                   EXCEPT !.chirps = created.chirps]}

\* mutant: a token that fails validation is answered with the reason
handlerDeleteChirp_Reason(r, chirpIDStr) ==
    LET bearerTok == GetBearerToken(r.header) IN
    IF bearerTok.err # "nil"
    THEN {Outcome(Error(401, "Unauthorized"), bearerTok.err, <<>>)}
    ELSE LET valid == ValidateJWT(bearerTok.token, jwtSecret, now)
             tok == bearerTok.token
             chirpID == UUIDParse(chirpIDStr)
    IN
    IF valid.err # "nil"
    THEN {Outcome(Error(401, valid.err), valid.err, tok)}
    ELSE IF chirpID.err # "nil"
    THEN {Outcome(Error(400, "Invalid chirp ID"), chirpID.err, tok)}
    ELSE LET dbChirp == GetChirpByID(chirpID.id, r.fault = "GetChirpByID") IN
         IF dbChirp.err # "nil"
         THEN {Outcome(Error(404, "Chirp not found"), dbChirp.err, tok)}
         ELSE IF dbChirp.userID # valid.userID
         THEN {Outcome(Error(403, "You can only delete your own chirps"),
                       "forbidden", tok)}
         ELSE LET deleted == DeleteChirp(chirpID.id, r.fault = "DeleteChirp") IN
              IF deleted.err # "nil"
              THEN {Outcome(Error(500, "Something went wrong"), deleted.err, tok)}
              ELSE {[Outcome(Status(204), "nil", tok)
                        EXCEPT !.chirps = deleted.chirps]}

\* mutant: an access token counts only while its user has a usable refresh
\* token
handlerDeleteChirp_Session(r, chirpIDStr) ==
    LET bearerTok == GetBearerToken(r.header) IN
    IF bearerTok.err # "nil"
    THEN {Outcome(Error(401, "Unauthorized"), bearerTok.err, <<>>)}
    ELSE LET valid == ValidateJWT(bearerTok.token, jwtSecret, now)
             tok == bearerTok.token
             chirpID == UUIDParse(chirpIDStr)
    IN
    IF \/ valid.err # "nil"
       \/ ~\E t \in DOMAIN refreshTokens :
              /\ refreshTokens[t].userID = valid.userID
              /\ Active(refreshTokens[t], now)
    THEN {Outcome(Error(401, "Unauthorized"), valid.err, tok)}
    ELSE IF chirpID.err # "nil"
    THEN {Outcome(Error(400, "Invalid chirp ID"), chirpID.err, tok)}
    ELSE LET dbChirp == GetChirpByID(chirpID.id, r.fault = "GetChirpByID") IN
         IF dbChirp.err # "nil"
         THEN {Outcome(Error(404, "Chirp not found"), dbChirp.err, tok)}
         ELSE IF dbChirp.userID # valid.userID
         THEN {Outcome(Error(403, "You can only delete your own chirps"),
                       "forbidden", tok)}
         ELSE LET deleted == DeleteChirp(chirpID.id, r.fault = "DeleteChirp") IN
              IF deleted.err # "nil"
              THEN {Outcome(Error(500, "Something went wrong"), deleted.err, tok)}
              ELSE {[Outcome(Status(204), "nil", tok)
                        EXCEPT !.chirps = deleted.chirps]}

\* mutant: the author of the chirp is not compared with the caller
handlerDeleteChirp_AnyAuthor(r, chirpIDStr) ==
    LET bearerTok == GetBearerToken(r.header) IN
    IF bearerTok.err # "nil"
    THEN {Outcome(Error(401, "Unauthorized"), bearerTok.err, <<>>)}
    ELSE LET valid == ValidateJWT(bearerTok.token, jwtSecret, now)
             tok == bearerTok.token
             chirpID == UUIDParse(chirpIDStr)
    IN
    IF valid.err # "nil"
    THEN {Outcome(Error(401, "Unauthorized"), valid.err, tok)}
    ELSE IF chirpID.err # "nil"
    THEN {Outcome(Error(400, "Invalid chirp ID"), chirpID.err, tok)}
    ELSE LET dbChirp == GetChirpByID(chirpID.id, r.fault = "GetChirpByID") IN
         IF dbChirp.err # "nil"
         THEN {Outcome(Error(404, "Chirp not found"), dbChirp.err, tok)}
         ELSE LET deleted == DeleteChirp(chirpID.id, r.fault = "DeleteChirp") IN
              IF deleted.err # "nil"
              THEN {Outcome(Error(500, "Something went wrong"), deleted.err, tok)}
              ELSE {[Outcome(Status(204), "nil", tok)
                        EXCEPT !.chirps = deleted.chirps]}

\* chirpIDStr is the last part of the path, as UUIDString writes an id
handlerDeleteChirp(r, chirpIDStr) ==
    LET bearerTok == GetBearerToken(r.header) IN
    IF bearerTok.err # "nil"
    THEN {Outcome(Error(401, "Unauthorized"), bearerTok.err, <<>>)}
    ELSE LET valid == ValidateJWT(bearerTok.token, jwtSecret, now)
             tok == bearerTok.token
             chirpID == UUIDParse(chirpIDStr)
    IN
    IF valid.err # "nil"
    THEN {Outcome(Error(401, "Unauthorized"), valid.err, tok)}
    ELSE IF chirpID.err # "nil"
    THEN {Outcome(Error(400, "Invalid chirp ID"), chirpID.err, tok)}
    ELSE LET dbChirp == GetChirpByID(chirpID.id, r.fault = "GetChirpByID") IN
         IF dbChirp.err # "nil"
         THEN {Outcome(Error(404, "Chirp not found"), dbChirp.err, tok)}
         ELSE IF dbChirp.userID # valid.userID
         THEN {Outcome(Error(403, "You can only delete your own chirps"),
                       "forbidden", tok)}
         ELSE LET deleted == DeleteChirp(chirpID.id, r.fault = "DeleteChirp") IN
              IF deleted.err # "nil"
              THEN {Outcome(Error(500, "Something went wrong"), deleted.err, tok)}
              ELSE {[Outcome(Status(204), "nil", tok)
                        EXCEPT !.chirps = deleted.chirps]}

-----------------------------------------------------------------------------
(* The server *)

Idle == [op |-> "none", method |-> "", header |-> <<>>, body |-> NoBody,
         bearer |-> <<>>]
NoReply == Status(0)
NoCall == [fn |-> "none"]
NoGoroutines == <<>>

\* the configuration the server starts with: the platform it was deployed
\* on and a hit counter of zero
apiCfg == [platform |-> "dev", fileserverHits |-> 0]

\* the store the process starts on already holds one registered user per id
Registered ==
    [i \in UserIDs |->
        [email |-> EmailOf(i),
         hashedPassword |-> Bcrypt(PasswordOf(i), "salt1"),
         isChirpyRed |-> FALSE]]

Init ==
    /\ now = 0
    /\ ticks = 0
    /\ users = Registered
    /\ refreshTokens = <<>>
    /\ req = Idle
    /\ resp = NoReply
    /\ log = "nil"
    /\ sessions = <<>>
    /\ call = NoCall
    /\ chirps = <<>>
    /\ goroutines = NoGoroutines
    /\ cfg = apiCfg

\* texts a client can put after the scheme word: any value the random source
\* can produce, and every access token handed out at a login or, where the
\* history keeps them, at a refresh
Presentable ==
    RefreshTokenSpace
        \cup {sessions[t].token : t \in DOMAIN sessions}
        \cup ({sessions[t].refreshed : t \in DOMAIN sessions} \ {<<>>})

Headers ==
    {<<>>, Bearer \o <<SP>>}
        \cup UNION {HeadersFor(tok) : tok \in Presentable}
        \cup UNION {OddHeadersFor(tok) : tok \in RefreshTokenSpace}

\* the request r is served with outcome out, and the history becomes history
ServeWith(r, out, history) ==
    /\ out.now - now <= MaxAdvance - ticks
    /\ now' = out.now
    /\ ticks' = ticks + (out.now - now)
    /\ users' = out.users
    /\ refreshTokens' = out.refreshTokens
    /\ chirps' = out.chirps
    /\ req' = [op |-> r.op, method |-> r.method, header |-> r.header,
               body |-> r.body, bearer |-> out.bearer]
    /\ resp' = out.resp
    /\ log' = out.err
    /\ sessions' = history
    /\ cfg' = out.cfg
    /\ UNCHANGED <<call, goroutines>>

\* the history keeps the logins answered 200 and the revokes answered 204
Serve(r, out) ==
    ServeWith(r, out,
        IF r.op = "login" /\ out.resp.status = 200
        THEN (out.resp.refreshToken :>
                 [userID |-> out.resp.userID, token |-> out.resp.token,
                  at |-> out.now, revoked |-> FALSE, refreshed |-> <<>>])
             @@ sessions
        ELSE IF r.op = "revoke" /\ out.resp.status = 204
                /\ out.bearer \in DOMAIN sessions
        THEN [sessions EXCEPT ![out.bearer].revoked = TRUE]
        ELSE sessions)

\* Requests.  An input the handler cannot reach is left at its default, so
\* that two requests differ only where the handler can tell them apart.
CredentialsOK(b) ==
    /\ b.ok /\ b.email # "" /\ b.password # <<>>
    /\ \E u \in DOMAIN users :
          /\ users[u].email = b.email
          /\ CheckPasswordHash(users[u].hashedPassword, b.password) = "nil"

LoginRequests ==
    {Request("login", "GET", <<>>, NoBody, "none", NoRnd)}
    \cup {Request("login", "POST", <<>>, b, "none", NoRnd) : b \in LoginBodies}
    \cup {Request("login", "POST", <<>>, b, "GetUserByEmail", NoRnd) :
            b \in {c \in LoginBodies : c.ok /\ c.email # "" /\ c.password # <<>>}}
    \cup {Request("login", "POST", <<>>, b, f, NoRnd) :
            b \in {c \in LoginBodies : CredentialsOK(c)},
            f \in {"MakeRefreshToken"}}
    \cup {Request("login", "POST", <<>>, b, f,
                  [NoRnd EXCEPT !.bytes = x, !.drift = d]) :
            b \in {c \in LoginBodies : CredentialsOK(c)},
            f \in {"none", "CreateRefreshToken"},
            x \in RandRead, d \in {0, 1}}

\* expires_in_seconds values whose product with time.Second leaves int64:
\* 9223372037 wraps to a negative duration, 18446744074 to 290448384 ns and
\* 20211507185753197 to 512 ns
Overflowing ==
    {I64Of(0, 549, 12680453), I64Of(0, 1099, 8583690),
     I64Of(71, 13517370, 3054701)}

\* expires_in_seconds: absent, or a number of seconds
ExpiresInChoices ==
    {<<>>}
        \cup {<<I64(n)>> : n \in {0 - 1, 0, 1, 1800, SecondsPerHour, 7200}}
        \cup {<<x>> : x \in Overflowing}

WithExpires(b, x) ==
    [ok |-> b.ok, email |-> b.email, password |-> b.password,
     expiresInSeconds |-> x]

LoginRequests_users ==
    {Request("login_users", "GET", <<>>, WithExpires(NoBody, <<>>), "none", NoRnd)}
    \cup {Request("login_users", "POST", <<>>, WithExpires(b, <<>>), f, NoRnd) :
            b \in LoginBodies, f \in {"none", "GetUserByEmail"}}
    \cup {Request("login_users", "POST", <<>>, WithExpires(b, x), "none", NoRnd) :
            b \in {c \in LoginBodies : CredentialsOK(c)}, x \in ExpiresInChoices}

BearerRequests(op) ==
    {Request(op, "GET", <<>>, NoBody, "none", NoRnd)}
    \cup {Request(op, "POST", h, NoBody, "none", NoRnd) : h \in Headers}

RefreshRequests ==
    BearerRequests("refresh")
    \cup {Request("refresh", "POST", h, NoBody, "GetUserFromRefreshToken", NoRnd) :
            h \in {g \in Headers : GetBearerToken(g).err = "nil"}}

RevokeRequests ==
    BearerRequests("revoke")
    \cup {Request("revoke", "POST", h, NoBody, "RevokeRefreshToken", NoRnd) :
            h \in {g \in Headers : GetBearerToken(g).err = "nil"}}

\* the salt bcrypt draws when a profile update re-hashes the password
UpdateSalts == {"salt2"}

Authorized ==
    {h \in Headers :
        /\ GetBearerToken(h).err = "nil"
        /\ ValidateJWT(GetBearerToken(h).token, jwtSecret, now).err = "nil"}

\* "sub" and "exp" change a claim and keep the signature; "badsub" is signed
\* with key over a subject that is no UUID; "garbage" is no token at all
Forge(token, f, key) ==
    LET tok == token[1]
        resub == [tok.claims EXCEPT
                     !.sub = UUIDString(IF tok.claims.sub.n = 1 THEN 2 ELSE 1)]
        later == [tok.claims EXCEPT !.exp = tok.claims.exp + SecondsPerHour]
        nouuid == [tok.claims EXCEPT !.sub = [text |-> "not-a-uuid", n |-> 0]]
    IN  CASE f = "none" -> token
          [] f = "sub" -> <<[tok EXCEPT !.claims = resub]>>
          [] f = "exp" -> <<[tok EXCEPT !.claims = later]>>
          [] f = "badsub" ->
                <<[kind |-> "jwt", claims |-> nouuid, sig |-> HS256(nouuid, key)]>>
          [] f = "garbage" -> Str(<<"x", ".", "y", ".", "z">>)

\* access tokens that the server did not sign as presented: made with
\* another key, or issued at a login and altered afterwards
WronglySigned ==
    {MakeJWT(u, s, Hour, now) : u \in UserIDs, s \in Secrets \ {jwtSecret}}
        \cup {Forge(sessions[t].token, f, jwtSecret) :
                 t \in DOMAIN sessions, f \in {"sub", "exp"}}

\* header values sent to the endpoints that ask for an access token
ProtectedHeaders ==
    Headers \cup UNION {HeadersFor(tok) : tok \in WronglySigned}

UpdateUserRequests ==
    {Request("updateUser", "POST", <<>>, NoBody, "none", NoRnd)}
    \cup {Request("updateUser", "PUT", h, NoBody, "none", NoRnd) :
            h \in ProtectedHeaders}
    \cup {Request("updateUser", "PUT", h, b, "none", [NoRnd EXCEPT !.salt = x]) :
            h \in Authorized, b \in UpdateBodies, x \in UpdateSalts}
    \cup {Request("updateUser", "PUT", h, Body(NewEmail, NewPassword), f,
                  [NoRnd EXCEPT !.salt = x]) :
            h \in Authorized, f \in {"HashPassword", "UpdateUser"}, x \in UpdateSalts}

\* chirp texts: none, a short one, one with a word to clean, one too long
ChirpTexts ==
    {<<>>, Str(<<"h", "i">>),
     Str(<<"S", "h", "a", "r", "b", "e", "r", "t">>) \o <<SP, SP>> \o Str(<<"h", "i">>),
     [i \in 1..(MaxChirpLength + 1) |-> Ch("x")]}

\* user_id is a field the decoder finds no place for in requestBody
NoChirpBody == [ok |-> FALSE, text |-> <<>>, user_id |-> NilUUID]

CreateChirpRequests ==
    {Request("createChirp", "POST", h, NoChirpBody, "none", NoRnd) :
        h \in ProtectedHeaders}
    \cup {Request("createChirp", "POST", h,
                  [ok |-> TRUE, text |-> t, user_id |-> NilUUID], "none", NoRnd) :
            h \in Authorized, t \in ChirpTexts}
    \cup {Request("createChirp", "POST", h,
                  [ok |-> TRUE, text |-> Str(<<"h", "i">>), user_id |-> u],
                  "none", NoRnd) : h \in Authorized, u \in UserIDs}
    \cup {Request("createChirp", "POST", h,
                  [ok |-> TRUE, text |-> Str(<<"h", "i">>), user_id |-> NilUUID],
                  "CreateChirp", NoRnd) : h \in Authorized}

\* the last part of the path of a DELETE: the id of a row or no UUID at all
ChirpPaths ==
    {UUIDString(c) : c \in 1..MaxChirps} \cup {[text |-> "not-a-uuid", n |-> 0]}

\* the body field of a DELETE holds the id taken from its path
DeleteChirpRequests ==
    {Request("deleteChirp", "DELETE", h, [ok |-> TRUE, path |-> p], "none", NoRnd) :
        h \in ProtectedHeaders, p \in ChirpPaths}
    \cup {Request("deleteChirp", "DELETE", h, [ok |-> TRUE, path |-> p], f, NoRnd) :
            h \in Authorized, p \in {UUIDString(c) : c \in DOMAIN chirps},
            f \in {"GetChirpByID", "DeleteChirp"}}

ServeLogin ==
    /\ req = Idle
    /\ \E r \in LoginRequests : \E out \in handlerLogin(r) : Serve(r, out)

ServeLogin_users ==
    /\ req = Idle
    /\ \E r \in LoginRequests_users : \E out \in handlerLogin_users(r) : Serve(r, out)

ServeRefresh ==
    /\ req = Idle
    /\ \E r \in RefreshRequests : \E out \in handlerRefresh(r) : Serve(r, out)

ServeRevoke ==
    /\ req = Idle
    /\ \E r \in RevokeRequests : \E out \in handlerRevoke(r) : Serve(r, out)

ServeUpdateUser ==
    /\ req = Idle
    /\ \E r \in UpdateUserRequests : \E out \in handlerUpdateUser(r) : Serve(r, out)

ServeCreateChirp ==
    /\ req = Idle
    /\ \E r \in CreateChirpRequests : \E out \in handlerCreateChirp(r) : Serve(r, out)

ServeDeleteChirp ==
    /\ req = Idle
    /\ \E r \in DeleteChirpRequests :
          \E out \in handlerDeleteChirp(r, r.body.path) : Serve(r, out)

\* the response has been written and the connection is done
Respond ==
    /\ req # Idle
    /\ req' = Idle
    /\ resp' = NoReply
    /\ log' = "nil"
    /\ UNCHANGED <<now, ticks, users, refreshTokens, sessions, call, chirps,
                   goroutines, cfg>>

\* time passes between requests
Tick ==
    /\ req = Idle
    /\ ticks < MaxAdvance
    /\ \E d \in ClockSteps : now' = now + d
    /\ ticks' = ticks + 1
    /\ UNCHANGED <<users, refreshTokens, req, resp, log, sessions, call, chirps,
                   goroutines, cfg>>

Next ==
    \/ ServeLogin
    \/ ServeRefresh
    \/ ServeRevoke
    \/ ServeUpdateUser
    \/ Respond
    \/ Tick

Spec == Init /\ [][Next]_vars

\* logging in only, with the handler of either version of the users file
NextLogin ==
    \/ ServeLogin
    \/ ServeLogin_users
    \/ Respond
    \/ Tick

SpecLogin == Init /\ [][NextLogin]_vars

\* the endpoints that ask for an access token, with login to obtain one and
\* refresh, which asks for a refresh token
NextChirp ==
    \/ ServeLogin
    \/ ServeRefresh
    \/ ServeCreateChirp
    \/ ServeDeleteChirp
    \/ ServeUpdateUser
    \/ Respond
    \/ Tick

SpecChirp == Init /\ [][NextChirp]_vars

\* updating a profile, with the logins and refreshes around it
NextUpdate ==
    \/ ServeLogin
    \/ ServeRefresh
    \/ ServeUpdateUser
    \/ Respond
    \/ Tick

SpecUpdate == Init /\ [][NextUpdate]_vars

-----------------------------------------------------------------------------
(* handlerRefresh and handlerRevoke running side by side.  net/http serves  *)
(* every request in a goroutine of its own; the handlers share the store    *)
(* only, and each sends it one statement.  A goroutine is at "store" before *)
(* that statement, at "write" before it writes the response, then "done".   *)

\* the requests race for the refresh tokens of sessions that are open when
\* they start: every value of the random source was handed out by a login at
\* time 0, to a user each
SessionsOpen ==
    \E owner \in [RefreshTokenSpace -> UserIDs] :
       /\ refreshTokens =
              [tok \in RefreshTokenSpace |->
                  [userID |-> owner[tok], createdAt |-> 0,
                   expiresAt |-> RefreshTTL, revokedAt |-> NullTime]]
       /\ sessions =
              [tok \in RefreshTokenSpace |->
                  [userID |-> owner[tok],
                   token |-> MakeJWT(owner[tok], jwtSecret, Hour, 0),
                   at |-> 0, revoked |-> FALSE, refreshed |-> <<>>]]

InitRace ==
    /\ now = 0
    /\ ticks = 0
    /\ users = Registered
    /\ SessionsOpen
    /\ req = Idle
    /\ resp = NoReply
    /\ log = "nil"
    /\ call = NoCall
    /\ chirps = <<>>
    /\ goroutines = NoGoroutines
    /\ cfg = apiCfg

\* a request for refresh or revoke arrives with a refresh token that a login
\* has handed out; GetBearerToken takes it from the header
Accept ==
    /\ Cardinality(DOMAIN goroutines) < MaxGoroutines
    /\ \E op \in {"refresh", "revoke"}, tok \in DOMAIN sessions :
          LET free == (1..MaxGoroutines) \ DOMAIN goroutines
              g == CHOOSE i \in free : \A j \in free : i <= j
              bearerTok == GetBearerToken(Bearer \o <<SP>> \o tok)
          IN  goroutines' =
                  (g :> [op |-> op, pc |-> "store", token |-> bearerTok.token,
                         err |-> bearerTok.err, userID |-> NilUUID,
                         status |-> 0, accessToken |-> <<>>,
                         afterRevoke |-> sessions[tok].revoked,
                         readUsable |-> FALSE])
                  @@ goroutines
    /\ UNCHANGED <<now, ticks, users, refreshTokens, req, resp, log, sessions,
                   call, chirps, cfg>>

\* handlerRefresh sends its one statement to the store
RefreshLookup ==
    /\ \E g \in DOMAIN goroutines :
          /\ goroutines[g].op = "refresh"
          /\ goroutines[g].pc = "store"
          /\ LET found == GetUserFromRefreshToken(goroutines[g].token, now, FALSE)
             IN  goroutines' =
                     [goroutines EXCEPT
                         ![g].pc = "write",
                         ![g].err = found.err,
                         ![g].userID = found.user.id,
                         ![g].readUsable =
                             /\ goroutines[g].token \in DOMAIN refreshTokens
                             /\ refreshTokens[goroutines[g].token].revokedAt = NullTime
                             /\ now < refreshTokens[goroutines[g].token].expiresAt]
    /\ UNCHANGED <<now, ticks, users, refreshTokens, req, resp, log, sessions,
                   call, chirps, cfg>>

\* handlerRevoke sends its one statement to the store
RevokeUpdate ==
    /\ \E g \in DOMAIN goroutines :
          /\ goroutines[g].op = "revoke"
          /\ goroutines[g].pc = "store"
          /\ \E revoked \in RevokeRefreshToken(goroutines[g].token, now, FALSE) :
                /\ refreshTokens' = revoked.refreshTokens
                /\ goroutines' = [goroutines EXCEPT ![g].pc = "write",
                                                    ![g].err = revoked.err]
    /\ UNCHANGED <<now, ticks, users, req, resp, log, sessions, call, chirps, cfg>>

\* the handler writes its response: 200 with the token or 401 for a refresh,
\* 204 or 500 for a revoke
WriteResponse ==
    /\ \E g \in DOMAIN goroutines :
          /\ goroutines[g].pc = "write"
          /\ LET failed == goroutines[g].err # "nil"
                 status == IF goroutines[g].op = "refresh"
                           THEN (IF failed THEN 401 ELSE 200)
                           ELSE (IF failed THEN 500 ELSE 204)
             IN  /\ goroutines' =
                        [goroutines EXCEPT
                            ![g].pc = "done",
                            ![g].status = status,
                            ![g].accessToken =
                                IF status = 200
                                THEN MakeJWT(goroutines[g].userID, jwtSecret, Hour, now)
                                ELSE <<>>]
                 /\ sessions' =
                        IF status = 204
                        THEN [sessions EXCEPT ![goroutines[g].token].revoked = TRUE]
                        ELSE sessions
    /\ UNCHANGED <<now, ticks, users, refreshTokens, req, resp, log, call, chirps,
                   cfg>>

\* the handler has returned and its goroutine ends
Return ==
    /\ \E g \in DOMAIN goroutines :
          /\ goroutines[g].pc = "done"
          /\ goroutines' = [h \in DOMAIN goroutines \ {g} |-> goroutines[h]]
    /\ UNCHANGED <<now, ticks, users, refreshTokens, req, resp, log, sessions,
                   call, chirps, cfg>>

NextRace ==
    \/ Tick
    \/ Accept
    \/ RefreshLookup
    \/ RevokeUpdate
    \/ WriteResponse
    \/ Return

SpecRace == InitRace /\ [][NextRace]_vars

-----------------------------------------------------------------------------
(* Access tokens in use while their sessions end *)

\* the sessions are young, or one tick before the end of their sixty days
InitAccess ==
    /\ now \in {0, RefreshTTL - 1}
    /\ ticks = 0
    /\ users = Registered
    /\ SessionsOpen
    /\ req = Idle
    /\ resp = NoReply
    /\ log = "nil"
    /\ call = NoCall
    /\ chirps = <<>>
    /\ goroutines = NoGoroutines
    /\ cfg = apiCfg

\* handlerRefresh, with the history keeping the access token it returned
ServeRefreshIssuing ==
    /\ req = Idle
    /\ \E r \in RefreshRequests : \E out \in handlerRefresh(r) :
          ServeWith(r, out,
              IF out.resp.status = 200 /\ out.bearer \in DOMAIN sessions
              THEN [sessions EXCEPT ![out.bearer].refreshed = out.resp.token]
              ELSE sessions)

\* the protected endpoint is the delete of a chirp; no chirp is stored, so a
\* request that passes the validation of its token is answered 404
NextAccess ==
    \/ ServeRefreshIssuing
    \/ ServeRevoke
    \/ ServeDeleteChirp
    \/ Respond
    \/ Tick

SpecAccess == InitAccess /\ [][NextAccess]_vars

TypeOK ==
    /\ now \in Nat
    /\ ticks \in 0..MaxAdvance
    /\ DOMAIN users \subseteq UserIDs
    /\ DOMAIN refreshTokens \subseteq RefreshTokenSpace

-----------------------------------------------------------------------------
(* The token codec called directly, as the tests of package auth call it *)

\* lifetimes passed to MakeJWT: half a second, a second, an hour
TTLs == {1, Second, Hour}

\* what a caller can present in place of the token MakeJWT returned
Forgeries == {"none", "sub", "exp", "badsub", "garbage"}

CallMakeJWT ==
    /\ \E u \in UserIDs \cup {NilUUID}, s \in Secrets, ttl \in TTLs :
          call' = [fn |-> "MakeJWT", userID |-> u, secret |-> s,
                   expiresIn |-> ttl, at |-> now,
                   token |-> MakeJWT(u, s, ttl, now),
                   forged |-> "none", presented |-> <<>>, vsecret |-> "",
                   vat |-> 0, err |-> "nil", result |-> NilUUID]
    /\ UNCHANGED <<now, ticks, users, refreshTokens, req, resp, log, sessions,
                   chirps, goroutines, cfg>>

CallValidateJWT ==
    /\ call.fn \in {"MakeJWT", "ValidateJWT"}
    /\ \E s \in Secrets, f \in Forgeries :
          LET p == Forge(call.token, f, call.secret)
              v == ValidateJWT(p, s, now)
          IN  call' = [call EXCEPT !.fn = "ValidateJWT", !.forged = f,
                                   !.presented = p, !.vsecret = s, !.vat = now,
                                   !.err = v.err, !.result = v.userID]
    /\ UNCHANGED <<now, ticks, users, refreshTokens, req, resp, log, sessions,
                   chirps, goroutines, cfg>>

NextJWT ==
    \/ CallMakeJWT
    \/ CallValidateJWT
    \/ Tick

SpecJWT == Init /\ [][NextJWT]_vars

-----------------------------------------------------------------------------
(* The bearer extractor called directly on a header value *)

MaxPieces == 5

\* what header values are put together from
Pieces ==
    {<<SP>>, <<TAB>>, Bearer, BeArEr, Basic,
     Str(<<"t", "o", "k">>), Str(<<"x">>)}

RECURSIVE Concats(_)
Concats(n) ==
    IF n = 0 THEN {<<>>}
    ELSE LET shorter == Concats(n - 1)
         IN  shorter \cup {h \o q : h \in shorter, q \in Pieces}

\* values of the Authorization header; the empty one is also what
\* headers.Get returns when the header is absent
AuthHeaders == Concats(MaxPieces)

InitBearer ==
    /\ now = 0
    /\ ticks = 0
    /\ users = Registered
    /\ refreshTokens = <<>>
    /\ req = Idle
    /\ resp = NoReply
    /\ log = "nil"
    /\ sessions = <<>>
    /\ call \in {[fn |-> "http.Header", header |-> h, err |-> "nil",
                  token |-> <<>>] : h \in AuthHeaders}
    /\ chirps = <<>>
    /\ goroutines = NoGoroutines
    /\ cfg = apiCfg

CallGetBearerToken ==
    /\ call.fn = "http.Header"
    /\ LET got == GetBearerToken(call.header)
       IN  call' = [call EXCEPT !.fn = "GetBearerToken", !.err = got.err,
                                !.token = got.token]
    /\ UNCHANGED <<now, ticks, users, refreshTokens, req, resp, log, sessions,
                   chirps, goroutines, cfg>>

NextBearer == CallGetBearerToken

SpecBearer == InitBearer /\ [][NextBearer]_vars

-----------------------------------------------------------------------------
(* cleanProfanity called directly on a text *)

\* the texts are put together from up to four pieces: whitespace, the three
\* words in different letter cases, another word and a punctuation mark
InitClean ==
    /\ now = 0
    /\ ticks = 0
    /\ users = Registered
    /\ refreshTokens = <<>>
    /\ req = Idle
    /\ resp = NoReply
    /\ log = "nil"
    /\ sessions = <<>>
    /\ LET pieces == {<<SP>>, <<TAB>>,
                      Str(<<"k", "e", "r", "f", "u", "f", "f", "l", "e">>),
                      Str(<<"K", "E", "R", "F", "U", "F", "F", "L", "E">>),
                      Str(<<"S", "h", "A", "r", "B", "e", "R", "t">>),
                      Str(<<"f", "o", "r", "n", "a", "x">>),
                      Str(<<"h", "i">>), Str(<<"!">>)}
           two == {a \o b : a, b \in pieces}
       IN  call \in {[fn |-> "text", text |-> t, result |-> <<>>] :
                        t \in {<<>>} \cup pieces \cup two
                                \cup {a \o b : a \in two, b \in pieces \cup two}}
    /\ chirps = <<>>
    /\ goroutines = NoGoroutines
    /\ cfg = apiCfg

CallCleanProfanity ==
    /\ call.fn = "text"
    /\ call' = [call EXCEPT !.fn = "cleanProfanity",
                            !.result = cleanProfanity(call.text)]
    /\ UNCHANGED <<now, ticks, users, refreshTokens, req, resp, log, sessions,
                   chirps, goroutines, cfg>>

NextClean == CallCleanProfanity

SpecClean == InitClean /\ [][NextClean]_vars

-----------------------------------------------------------------------------
(* The payment webhook *)

\* cfg.polkaKey, the key the payment provider is given
polkaKey == Str(<<"p", "k", "1">>)

ApiKey == Str(<<"A", "p", "i", "K", "e", "y">>)

\* UPDATE users SET is_chirpy_red = TRUE WHERE id = $1 RETURNING *: an error
\* when no row has the id
UpgradeUserToChirpyRed(id, fault) ==
    IF fault \/ id \notin DOMAIN users
    THEN [err |-> IF fault THEN "StorageFailure" ELSE "NotFound", users |-> users]
    ELSE [err |-> "nil", users |-> [users EXCEPT ![id].isChirpyRed = TRUE]]

\* mutant: the event is not looked at
handlerPolkaWebhook_AnyEvent(r) ==
    IF r.method # "POST"
    THEN {Outcome(Status(405), "method", <<>>)}
    ELSE IF ~r.body.ok
    THEN {Outcome(Status(400), "decode", <<>>)}
    ELSE LET userID == UUIDParse(r.body.userID) IN
         IF userID.err # "nil"
         THEN {Outcome(Status(400), userID.err, <<>>)}
         ELSE LET upgraded == UpgradeUserToChirpyRed(userID.id,
                                  r.fault = "UpgradeUserToChirpyRed")
              IN
              IF upgraded.err # "nil"
              THEN {Outcome(Status(404), upgraded.err, <<>>)}
              ELSE {[Outcome(Status(204), "nil", <<>>)
                        EXCEPT !.users = upgraded.users]}

\* r.header, the Authorization header, is not read
handlerPolkaWebhook(r) ==
    IF r.method # "POST"
    THEN {Outcome(Status(405), "method", <<>>)}
    ELSE IF ~r.body.ok
    THEN {Outcome(Status(400), "decode", <<>>)}
    ELSE IF r.body.event # "user.upgraded"
    THEN {Outcome(Status(204), "nil", <<>>)}
    ELSE LET userID == UUIDParse(r.body.userID) IN
         IF userID.err # "nil"
         THEN {Outcome(Status(400), userID.err, <<>>)}
         ELSE LET upgraded == UpgradeUserToChirpyRed(userID.id,
                                  r.fault = "UpgradeUserToChirpyRed")
              IN
              IF upgraded.err # "nil"
              THEN {Outcome(Status(404), upgraded.err, <<>>)}
              ELSE {[Outcome(Status(204), "nil", <<>>)
                        EXCEPT !.users = upgraded.users]}

\* webhook requests: without an Authorization header, with the key and with
\* another key; a body that does not decode, another event, and an upgrade
\* of a registered user, of an id without a user and of no UUID at all
PolkaWebhookRequests ==
    LET headers == {<<>>, ApiKey \o <<SP>> \o polkaKey,
                    ApiKey \o <<SP>> \o Str(<<"p", "k", "2">>)}
        ids == {UUIDString(u) : u \in 1..(MaxUsers + 1)}
                   \cup {[text |-> "not-a-uuid", n |-> 0]}
        bodies == {[ok |-> FALSE, event |-> "", userID |-> UUIDString(NilUUID)],
                   [ok |-> TRUE, event |-> "user.downgraded",
                    userID |-> UUIDString(1)]}
                      \cup {[ok |-> TRUE, event |-> "user.upgraded", userID |-> i] :
                               i \in ids}
    IN  {Request("polkaWebhook", "GET", h, CHOOSE b \in bodies : ~b.ok, "none", NoRnd) :
            h \in headers}
        \cup {Request("polkaWebhook", "POST", h, b, "none", NoRnd) :
                 h \in headers, b \in bodies}
        \cup {Request("polkaWebhook", "POST", h,
                      [ok |-> TRUE, event |-> "user.upgraded", userID |-> UUIDString(1)],
                      "UpgradeUserToChirpyRed", NoRnd) : h \in headers}

ServePolkaWebhook ==
    /\ req = Idle
    /\ \E r \in PolkaWebhookRequests : \E out \in handlerPolkaWebhook(r) : Serve(r, out)

NextWebhook ==
    \/ ServePolkaWebhook
    \/ Respond
    \/ Tick

SpecWebhook == Init /\ [][NextWebhook]_vars

-----------------------------------------------------------------------------
(* The hasher and the refresh-token generator called directly *)

\* the passwords of the tests ("testpassword123", "wrongpassword"), the empty
\* one, short ones with and without a NUL byte, and ones of 72 and 73 bytes
AuthPasswords ==
    LET long == [i \in 1..BcryptKeyBytes |-> 97 + (i % 26)]
    IN  {<<116, 101, 115, 116, 112, 97, 115, 115, 119, 111, 114, 100, 49, 50, 51>>,
         <<119, 114, 111, 110, 103, 112, 97, 115, 115, 119, 111, 114, 100>>,
         <<>>, <<97>>, <<97, 98>>, <<97, NUL, 97>>,
         long, [long EXCEPT ![BcryptKeyBytes] = 120], long \o <<120>>}

\* what rand.Read may leave in the 32 bytes of MakeRefreshToken
AuthBuffers ==
    {[i \in 1..RefreshTokenBytes |-> (a * i + b) % 256] :
        a \in {0, 1, 7, 85}, b \in {0, 9, 10, 255}}

\* the arguments of the calls: the password hashed, the password compared
\* with the hash, and what the random source gives to bcrypt (a salt or an
\* error) and to MakeRefreshToken (a filled buffer or an error)
InitAuth ==
    /\ now = 0
    /\ ticks = 0
    /\ users = Registered
    /\ refreshTokens = <<>>
    /\ req = Idle
    /\ resp = NoReply
    /\ log = "nil"
    /\ sessions = <<>>
    /\ call \in {[fn |-> "args", password |-> p, candidate |-> q, salt |-> s,
                  buffer |-> b, err |-> "nil", hash |-> Bcrypt(<<>>, ""),
                  checked |-> "", token |-> <<>>] :
                    p \in AuthPasswords, q \in AuthPasswords,
                    s \in Salts \cup {"err"}, b \in AuthBuffers \cup {<<>>}}
    /\ chirps = <<>>
    /\ goroutines = NoGoroutines
    /\ cfg = apiCfg

CallHashPassword ==
    /\ call.fn = "args"
    /\ LET hashed == HashPassword(call.password, call.salt)
       IN  call' = [call EXCEPT !.fn = "HashPassword", !.err = hashed.err,
                                !.hash = hashed.hash]
    /\ UNCHANGED <<now, ticks, users, refreshTokens, req, resp, log, sessions,
                   chirps, goroutines, cfg>>

CallCheckPasswordHash ==
    /\ call.fn = "HashPassword"
    /\ call.err = "nil"
    /\ call' = [call EXCEPT !.fn = "CheckPasswordHash",
                            !.checked = CheckPasswordHash(call.hash, call.candidate)]
    /\ UNCHANGED <<now, ticks, users, refreshTokens, req, resp, log, sessions,
                   chirps, goroutines, cfg>>

CallMakeRefreshToken ==
    /\ call.fn = "args"
    /\ LET made == MakeRefreshToken(call.buffer)
       IN  call' = [call EXCEPT !.fn = "MakeRefreshToken", !.err = made.err,
                                !.token = made.token]
    /\ UNCHANGED <<now, ticks, users, refreshTokens, req, resp, log, sessions,
                   chirps, goroutines, cfg>>

NextAuth ==
    \/ CallHashPassword
    \/ CallCheckPasswordHash
    \/ CallMakeRefreshToken

SpecAuth == InitAuth /\ [][NextAuth]_vars

-----------------------------------------------------------------------------
(* The hit counter of the file server and the admin endpoints *)

MaxHits == 3            \* requests for /app/ counted from zero
MaxInt32 == 2147483647  \* the largest value of atomic.Int32

\* DELETE FROM users.  Whether the rows that refer to a user go with it is
\* the schema's choice, so both outcomes are possible.
DeleteAllUsers(fault) ==
    IF fault
    THEN {[err |-> "StorageFailure", users |-> users, chirps |-> chirps,
           refreshTokens |-> refreshTokens]}
    ELSE {[err |-> "nil", users |-> <<>>, chirps |-> chirps,
           refreshTokens |-> refreshTokens],
          [err |-> "nil", users |-> <<>>, chirps |-> <<>>,
           refreshTokens |-> <<>>]}

\* DELETE FROM chirps, on the rows cs
DeleteAllChirps(cs, fault) ==
    IF fault
    THEN [err |-> "StorageFailure", chirps |-> cs]
    ELSE [err |-> "nil", chirps |-> <<>>]

\* GET /admin/metrics: the page carries the number that Load returns
handlerMetrics(r) ==
    IF r.method # "GET"
    THEN {Outcome(Status(405), "nil", <<>>)}
    ELSE {Outcome([status |-> 200, visited |-> cfg.fileserverHits], "nil", <<>>)}

\* mutant: the counter is reset only after both deletes have succeeded
handlerReset_StoreLast(r) ==
    IF r.method # "POST"
    THEN {Outcome(Status(405), "nil", <<>>)}
    ELSE IF cfg.platform # "dev"
    THEN {Outcome(Status(403), "nil", <<>>)}
    ELSE LET stored == [cfg EXCEPT !.fileserverHits = 0]
         IN  UNION {
               IF du.err # "nil"
               THEN {Outcome(Error(500, "Error deleting users"), du.err, <<>>)}
               ELSE LET dc == DeleteAllChirps(du.chirps, r.fault = "DeleteAllChirps")
                    IN  {[Outcome(IF dc.err # "nil"
                                  THEN Error(500, "Error deleting chirps")
                                  ELSE Status(200), dc.err, <<>>)
                            EXCEPT !.cfg = IF dc.err # "nil" THEN cfg ELSE stored,
                                   !.users = du.users,
                                   !.refreshTokens = du.refreshTokens,
                                   !.chirps = dc.chirps]}
               : du \in DeleteAllUsers(r.fault = "DeleteAllUsers") }

\* POST /admin/reset.  Store(0) comes before the first delete, and a delete
\* that fails ends the handler with what was done so far left in place.
handlerReset(r) ==
    IF r.method # "POST"
    THEN {Outcome(Status(405), "nil", <<>>)}
    ELSE IF cfg.platform # "dev"
    THEN {Outcome(Status(403), "nil", <<>>)}
    ELSE LET stored == [cfg EXCEPT !.fileserverHits = 0]
         IN  UNION {
               IF du.err # "nil"
               THEN {[Outcome(Error(500, "Error deleting users"), du.err, <<>>)
                        EXCEPT !.cfg = stored]}
               ELSE LET dc == DeleteAllChirps(du.chirps, r.fault = "DeleteAllChirps")
                    IN  {[Outcome(IF dc.err # "nil"
                                  THEN Error(500, "Error deleting chirps")
                                  ELSE Status(200), dc.err, <<>>)
                            EXCEPT !.cfg = stored, !.users = du.users,
                                   !.refreshTokens = du.refreshTokens,
                                   !.chirps = dc.chirps]}
               : du \in DeleteAllUsers(r.fault = "DeleteAllUsers") }

\* the server has counted some requests already, on either platform, and
\* the store holds the registered users and at most one chirp
InitAdmin ==
    /\ now = 0
    /\ ticks = 0
    /\ users = Registered
    /\ refreshTokens = <<>>
    /\ req = Idle
    /\ resp = NoReply
    /\ log = "nil"
    /\ sessions = <<>>
    /\ call = NoCall
    /\ chirps \in {<<>>, 1 :> [body |-> Str(<<"h", "i">>), userID |-> 1]}
    /\ goroutines = NoGoroutines
    /\ cfg \in {[platform |-> p, fileserverHits |-> h] :
                  p \in {"dev", "production"}, h \in {0, MaxInt32 - 1}}

\* a request for /app/ arrives: the counter is incremented with Add(1), in
\* one atomic step and in 32 bits, and the wrapped handler is to run next
middlewareMetricsInc ==
    /\ Cardinality(DOMAIN goroutines) < MaxGoroutines
    /\ \/ cfg.fileserverHits \in 0..(MaxHits - 1)
       \/ cfg.fileserverHits >= MaxInt32 - 1
    /\ LET free == (1..MaxGoroutines) \ DOMAIN goroutines
           g == CHOOSE i \in free : \A j \in free : i <= j
       IN  goroutines' = (g :> [op |-> "app", pc |-> "next", status |-> 0])
                         @@ goroutines
    /\ cfg' = [cfg EXCEPT !.fileserverHits =
                  IF @ = MaxInt32 THEN -MaxInt32 - 1 ELSE @ + 1]
    /\ UNCHANGED <<now, ticks, users, refreshTokens, req, resp, log, sessions,
                   call, chirps>>

\* next.ServeHTTP: the file server answers the request
nextServeHTTP ==
    /\ \E g \in DOMAIN goroutines :
          /\ goroutines[g].pc = "next"
          /\ goroutines' = [goroutines EXCEPT ![g].pc = "done",
                                              ![g].status = 200]
    /\ UNCHANGED <<now, ticks, users, refreshTokens, req, resp, log, sessions,
                   call, chirps, cfg>>

ServeMetrics ==
    /\ req = Idle
    /\ \E m \in {"GET", "POST"} :
          LET r == Request("metrics", m, <<>>, NoBody, "none", NoRnd)
          IN  \E out \in handlerMetrics(r) : Serve(r, out)

ServeReset ==
    /\ req = Idle
    /\ \E m \in {"GET", "POST"},
          f \in {"none", "DeleteAllUsers", "DeleteAllChirps"} :
          LET r == Request("reset", m, <<>>, NoBody, f, NoRnd)
          IN  \E out \in handlerReset(r) : Serve(r, out)

NextAdmin ==
    \/ middlewareMetricsInc
    \/ nextServeHTTP
    \/ Return
    \/ ServeMetrics
    \/ ServeReset
    \/ Respond

SpecAdmin == InitAdmin /\ [][NextAdmin]_vars

-----------------------------------------------------------------------------
(* Properties *)

SixtyDays == 60 * 24 * 3600 * TicksPerSecond

\* the record of tok can be used for a refresh at the current time
Usable(tok) ==
    /\ tok \in DOMAIN refreshTokens
    /\ refreshTokens[tok].revokedAt = NullTime
    /\ now < refreshTokens[tok].expiresAt

\* the record of tok is revoked or past its expiry
Dead(tok) ==
    /\ tok \in DOMAIN refreshTokens
    /\ \/ refreshTokens[tok].revokedAt # NullTime
       \/ now >= refreshTokens[tok].expiresAt

\* C1: a POST to refresh is answered 200 with an access token exactly when
\* the header yields a token whose record exists, is not revoked and is not
\* expired at the current time (and the store answers the lookup); every
\* other refresh is answered 401 and carries no token.
C1_RefreshIffUsable ==
    (req.op = "refresh" /\ req.method = "POST") =>
        /\ (resp.status = 200 /\ resp.token # <<>>)
              <=> (/\ req.bearer # <<>>
                   /\ Usable(req.bearer)
                   /\ log # "StorageFailure")
        /\ (resp.status # 200) => (resp.status = 401 /\ resp.token = <<>>)

\* a refresh refused because the record, never revoked, has reached its expiry
C1_Witness ==
    /\ req.op = "refresh"
    /\ resp.status = 401
    /\ req.bearer \in DOMAIN refreshTokens
    /\ refreshTokens[req.bearer].revokedAt = NullTime
    /\ now >= refreshTokens[req.bearer].expiresAt

\* C2: once the record of a refresh token is revoked or expired, every step
\* leaves it in the store, revoked or expired, with the expiry it had, and a
\* refresh with that token is not answered 200.
C2_DeadStaysDead ==
    [][\A tok \in DOMAIN refreshTokens :
          Dead(tok) =>
              /\ tok \in DOMAIN refreshTokens'
              /\ Dead(tok)'
              /\ refreshTokens'[tok].expiresAt = refreshTokens[tok].expiresAt
              /\ ~(req'.op = "refresh" /\ req'.bearer = tok /\ resp'.status = 200)]_vars

\* a refresh with a revoked token is refused after a later login has added a
\* record to the store
C2_Witness ==
    /\ req.op = "refresh"
    /\ resp.status = 401
    /\ req.bearer \in DOMAIN refreshTokens
    /\ refreshTokens[req.bearer].revokedAt # NullTime
    /\ \E t \in DOMAIN refreshTokens :
          refreshTokens[t].createdAt > refreshTokens[req.bearer].revokedAt

\* C3: a refresh with a token that a login returned is answered 200 as long
\* as no revoke of it was answered 204, sixty days have not passed since the
\* login and the store answers; once a revoke of it was answered 204, every
\* refresh with it is answered 401 Unauthorized.
C3_LoginRefreshRevoke ==
    (req.op = "refresh" /\ req.method = "POST" /\ req.bearer \in DOMAIN sessions) =>
        LET s == sessions[req.bearer] IN
        /\ s.revoked =>
              (resp.status = 401 /\ resp.error = "Unauthorized" /\ resp.token = <<>>)
        /\ (~s.revoked /\ now < s.at + SixtyDays /\ log # "StorageFailure") =>
              resp.status = 200

\* a refresh refused with a token that a login returned and a revoke retired
C3_Witness ==
    /\ req.op = "refresh"
    /\ req.bearer \in DOMAIN sessions
    /\ sessions[req.bearer].revoked
    /\ resp.status = 401

\* C4: the access token of a successful refresh validates under the process
\* secret to the user who owns the record of the presented refresh token,
\* who is the user whose login returned that token.
C4_RefreshMintsForOwner ==
    (req.op = "refresh" /\ resp.status = 200) =>
        LET v == ValidateJWT(resp.token, jwtSecret, now) IN
        /\ v.err = "nil"
        /\ req.bearer \in DOMAIN refreshTokens
        /\ req.bearer \in DOMAIN sessions
        /\ v.userID = refreshTokens[req.bearer].userID
        /\ v.userID = sessions[req.bearer].userID

\* a successful refresh while another user holds a session of their own
C4_Witness ==
    /\ req.op = "refresh"
    /\ resp.status = 200
    /\ \E t \in DOMAIN sessions :
          sessions[t].userID # sessions[req.bearer].userID

\* C5: the access token of a successful refresh differs from the access token
\* of the login that returned the refresh token.
C5_RefreshTokenIsNew ==
    (req.op = "refresh" /\ resp.status = 200 /\ req.bearer \in DOMAIN sessions) =>
        resp.token # sessions[req.bearer].token

\* C6: a POST to revoke whose header yields a bearer token is answered 204.
C6_RevokeAlways204 ==
    (req.op = "revoke" /\ req.method = "POST" /\ req.bearer # <<>>) =>
        resp.status = 204

\* C7: a revoke of a token that has no record fails, with NotFound unless the
\* store itself is down, is not answered 204, and leaves the store as it was.
C7_RevokeUnknownFails ==
    [][(/\ req = Idle
        /\ req'.op = "revoke"
        /\ req'.method = "POST"
        /\ req'.bearer # <<>>
        /\ req'.bearer \notin DOMAIN refreshTokens)
       => (/\ refreshTokens' = refreshTokens
           /\ log' \in {"NotFound", "StorageFailure"}
           /\ resp'.status = 500)]_vars

\* a revoke of a token without a record, refused as not found
C7_Witness ==
    /\ req.op = "revoke"
    /\ req.bearer # <<>>
    /\ req.bearer \notin DOMAIN refreshTokens
    /\ log = "NotFound"
    /\ resp.status = 500

\* C8: a revoke of a token that has a record, whether or not that record is
\* already revoked, is answered 204 without error when the store answers,
\* leaves the record revoked with its owner and expiry, and leaves every
\* other record as it was.
C8_RevokeIdempotent ==
    [][(/\ req = Idle
        /\ req'.op = "revoke"
        /\ req'.method = "POST"
        /\ req'.bearer \in DOMAIN refreshTokens
        /\ log' # "StorageFailure")
       => LET tok == req'.bearer IN
          /\ resp'.status = 204
          /\ log' = "nil"
          /\ DOMAIN refreshTokens' = DOMAIN refreshTokens
          /\ refreshTokens'[tok].revokedAt # NullTime
          /\ refreshTokens'[tok].userID = refreshTokens[tok].userID
          /\ refreshTokens'[tok].expiresAt = refreshTokens[tok].expiresAt
          /\ \A t \in DOMAIN refreshTokens \ {tok} :
                refreshTokens'[t] = refreshTokens[t]]_vars

\* a revoke answered 204 for a record that was revoked at an earlier time,
\* with another record in the store
C8_Witness ==
    /\ req.op = "revoke"
    /\ resp.status = 204
    /\ req.bearer \in DOMAIN refreshTokens
    /\ refreshTokens[req.bearer].revokedAt # NullTime
    /\ refreshTokens[req.bearer].revokedAt < now
    /\ \E t \in DOMAIN refreshTokens : t # req.bearer

\* C9: with either login handler, a login whose body decodes and whose
\* credentials are not those of a registered user (empty email or password,
\* unregistered email, wrong password) gets one and the same response, 401
\* "Incorrect email or password", and so does every login answered 401.
C9_LoginRejectionsAlike ==
    (req.op \in {"login", "login_users"} /\ req.method = "POST") =>
        /\ (req.body.ok /\ ~CredentialsOK(req.body)) =>
              resp = Error(401, "Incorrect email or password")
        /\ (resp.status = 401) =>
              resp = Error(401, "Incorrect email or password")

\* a login with an unregistered email, refused
C9_Witness ==
    /\ req.op = "login"
    /\ req.body.email = UnknownEmail
    /\ resp.status = 401

\* C10: a login answered 200 returns an access token that validates to the
\* authenticated user and expires one hour after it was issued, returns a
\* refresh token that had no record, and leaves the store with exactly that
\* one record more: owned by that user, not revoked, expiring sixty days
\* after a time between the request and the response.
C10_LoginPersistsSession ==
    [][(req = Idle /\ req'.op = "login" /\ resp'.status = 200)
       => LET tok == resp'.refreshToken
              v == ValidateJWT(resp'.token, jwtSecret, now')
          IN
          /\ resp'.token # <<>>
          /\ tok # <<>>
          /\ v.err = "nil"
          /\ v.userID = resp'.userID
          /\ resp'.userID \in DOMAIN users
          /\ users[resp'.userID].email = req'.body.email
          /\ CheckPasswordHash(users[resp'.userID].hashedPassword,
                               req'.body.password) = "nil"
          /\ resp'.token[1].claims.exp - resp'.token[1].claims.iat = SecondsPerHour
          /\ tok \notin DOMAIN refreshTokens
          /\ DOMAIN refreshTokens' = DOMAIN refreshTokens \cup {tok}
          /\ \A t \in DOMAIN refreshTokens : refreshTokens'[t] = refreshTokens[t]
          /\ refreshTokens'[tok].userID = resp'.userID
          /\ refreshTokens'[tok].revokedAt = NullTime
          /\ refreshTokens'[tok].expiresAt - SixtyDays \in now..now']_vars

\* a login answered 200 that adds the second record to the store
C10_Witness ==
    /\ req.op = "login"
    /\ resp.status = 200
    /\ resp.refreshToken \in DOMAIN refreshTokens
    /\ Cardinality(DOMAIN refreshTokens) = 2

\* seconds between the issued-at and the expires-at of the token in resp
Lifetime == resp.token[1].claims.exp - resp.token[1].claims.iat

\* C11: the access token of a successful login with expires_in_seconds lives
\* more than zero and at most 3600 seconds, whatever was requested: 3600 for
\* a request that is absent, zero, negative or 7200, and the requested
\* number of seconds for a request of 1, 1800 or 3600.
C11_LifetimeClamped ==
    (req.op = "login_users" /\ resp.status = 200) =>
        LET x == req.body.expiresInSeconds IN
        /\ Lifetime > 0
        /\ Lifetime <= 3600
        /\ (x \in {<<>>, <<I64(0)>>, <<I64(0 - 1)>>, <<I64(7200)>>}) => Lifetime = 3600
        /\ \A n \in {1, 1800, 3600} : (x = <<I64(n)>>) => Lifetime = n

\* C12: serving a refresh, whatever its answer, leaves the refresh-token
\* store and the users as they were; after a refresh answered 200 the record
\* of the presented token is still unrevoked and unexpired, so the token
\* serves the next refresh as well.
C12_RefreshKeepsStore ==
    [][(req = Idle /\ req'.op = "refresh")
       => (/\ refreshTokens' = refreshTokens
           /\ users' = users
           /\ (resp'.status = 200) =>
                 (/\ req'.bearer \in DOMAIN refreshTokens'
                  /\ refreshTokens'[req'.bearer].revokedAt = NullTime
                  /\ now' < refreshTokens'[req'.bearer].expiresAt))]_vars

\* a refresh answered 200, later than the login that created the record,
\* with the record still usable
C12_Witness ==
    /\ req.op = "refresh"
    /\ resp.status = 200
    /\ Usable(req.bearer)
    /\ refreshTokens[req.bearer].createdAt < now

\* C13: ValidateJWT returns no error exactly when the presented token is
\* signed under the given secret over the claims it carries, the time of the
\* call is before its expires-at, and its subject is a UUID; it then returns
\* the subject, and in every other case it returns the nil identity.
C13_ValidIffThree ==
    (call.fn = "ValidateJWT") =>
        LET wellFormed == call.forged # "garbage"
            sigOK == /\ wellFormed
                     /\ call.forged \notin {"sub", "exp"}
                     /\ call.vsecret = call.secret
            timeOK == /\ wellFormed
                      /\ call.vat < call.presented[1].claims.exp * TicksPerSecond
            subOK == wellFormed /\ call.forged # "badsub"
        IN  /\ (call.err = "nil") <=> (sigOK /\ timeOK /\ subOK)
            /\ (call.err = "nil") => call.result = call.userID
            /\ (call.err # "nil") => call.result = NilUUID

\* a token whose subject was changed after signing, presented in time under
\* the right secret, is refused
C13_Witness ==
    /\ call.fn = "ValidateJWT"
    /\ call.forged = "sub"
    /\ call.vsecret = call.secret
    /\ call.vat < call.presented[1].claims.exp * TicksPerSecond
    /\ call.err # "nil"
    /\ call.result = NilUUID

\* C14: the token MakeJWT(u, s, ttl) returned, validated under s at a time
\* before ttl has elapsed since the call of MakeJWT, yields u.
C14_RoundTrip ==
    (/\ call.fn = "ValidateJWT"
     /\ call.forged = "none"
     /\ call.vsecret = call.secret
     /\ call.expiresIn > 0
     /\ call.vat < call.at + call.expiresIn)
    => (call.err = "nil" /\ call.result = call.userID)

\* C15: a token issued under one secret, validated under another, is
\* refused and yields the nil identity; untouched, it is refused for its
\* signature.
C15_WrongSecretFails ==
    (call.fn = "ValidateJWT" /\ call.vsecret # call.secret) =>
        /\ call.err # "nil"
        /\ call.result = NilUUID
        /\ (call.forged = "none") => call.err = "signature is invalid"

\* an untouched, unexpired token refused under another secret
C15_Witness ==
    /\ call.fn = "ValidateJWT"
    /\ call.forged = "none"
    /\ call.vsecret # call.secret
    /\ call.vat < call.presented[1].claims.exp * TicksPerSecond
    /\ call.err = "signature is invalid"

\* C16: the token MakeJWT returned, validated under its secret once ttl has
\* elapsed since the call of MakeJWT, is refused as expired; and a token
\* refused as expired is not accepted by any later validation.
C16_ExpiredStaysExpired ==
    /\ [](( /\ call.fn = "ValidateJWT"
            /\ call.forged = "none"
            /\ call.vsecret = call.secret
            /\ call.vat >= call.at + call.expiresIn)
          => (call.err = "token is expired" /\ call.result = NilUUID))
    /\ [][(/\ call.fn = "ValidateJWT"
           /\ call.forged = "none"
           /\ call.err = "token is expired"
           /\ call'.fn = "ValidateJWT"
           /\ call'.token = call.token
           /\ call'.forged = "none")
          => call'.err # "nil"]_vars

\* a token of half a second, refused as expired after its lifetime
C16_Witness ==
    /\ call.fn = "ValidateJWT"
    /\ call.forged = "none"
    /\ call.vsecret = call.secret
    /\ call.expiresIn < TicksPerSecond
    /\ call.vat > call.at + call.expiresIn
    /\ call.err = "token is expired"

\* Words of a text, read off its characters: a word starts at a character
\* that is not whitespace and follows whitespace or nothing, and runs up to
\* the next whitespace.
WordStarts(h) ==
    {i \in 1..Len(h) : ~IsSpace(h[i]) /\ (i = 1 \/ IsSpace(h[i - 1]))}

NumWords(h) == Cardinality(WordStarts(h))

WordAt(h, i) ==
    LET j == CHOOSE k \in i..Len(h) :
                 /\ \A m \in i..k : ~IsSpace(h[m])
                 /\ (k = Len(h) \/ IsSpace(h[k + 1]))
    IN  SubSeq(h, i, j)

Word(h, n) ==
    WordAt(h, CHOOSE i \in WordStarts(h) :
                  Cardinality({j \in WordStarts(h) : j <= i}) = n)

\* w is the word Bearer in some letter case
IsBearerWord(w) ==
    LET letters == <<{"B", "b"}, {"E", "e"}, {"A", "a"}, {"R", "r"},
                     {"E", "e"}, {"R", "r"}>>
    IN  /\ Len(w) = 6
        /\ \A i \in 1..6 : w[i].kind = "ch" /\ w[i].c \in letters[i]

\* the header starts with the scheme word
HasScheme(h) == NumWords(h) >= 1 /\ IsBearerWord(Word(h, 1))

\* C17: GetBearerToken fails with 'authorization header not found' on an
\* empty header value, and fails, returning no token, on a header whose
\* first word is not Bearer in some letter case or that has no word at all.
C17_MissingOrWrongScheme ==
    (call.fn = "GetBearerToken") =>
        /\ (call.header = <<>>) =>
              (call.err = "authorization header not found" /\ call.token = <<>>)
        /\ (call.header # <<>> /\ ~HasScheme(call.header)) =>
              (/\ call.err = "authorization header must be in format 'Bearer TOKEN'"
               /\ call.token = <<>>)

\* a header of two words with the scheme Basic, refused
C17_Witness ==
    /\ call.fn = "GetBearerToken"
    /\ NumWords(call.header) = 2
    /\ Word(call.header, 1) = Basic
    /\ call.err # "nil"

\* C18: on a header of exactly two words whose first is Bearer in some
\* letter case, GetBearerToken returns the second word, whatever whitespace
\* stands before, between and after the words.
C18_SecondWordReturned ==
    (/\ call.fn = "GetBearerToken"
     /\ HasScheme(call.header)
     /\ NumWords(call.header) = 2)
    => (call.err = "nil" /\ call.token = Word(call.header, 2))

\* a mixed-case scheme, a tab among the whitespace and whitespace at the end
C18_Witness ==
    /\ call.fn = "GetBearerToken"
    /\ NumWords(call.header) = 2
    /\ Word(call.header, 1) = BeArEr
    /\ \E i \in 1..Len(call.header) : call.header[i] = TAB
    /\ IsSpace(call.header[Len(call.header)])
    /\ call.err = "nil"

\* C19: on a header of more than two words whose first is Bearer in some
\* letter case, GetBearerToken succeeds and returns the words after the
\* first, in order, with exactly one space between neighbours and nothing
\* else.
C19_TrailingWordsJoined ==
    (/\ call.fn = "GetBearerToken"
     /\ HasScheme(call.header)
     /\ NumWords(call.header) > 2)
    => LET n == NumWords(call.header)
           t == call.token
       IN  /\ call.err = "nil"
           /\ NumWords(t) = n - 1
           /\ \A k \in 1..(n - 1) : Word(t, k) = Word(call.header, k + 1)
           /\ \A i \in 1..Len(t) : IsSpace(t[i]) => t[i] = SP
           /\ Cardinality({i \in 1..Len(t) : IsSpace(t[i])}) = n - 2

\* three words parted by more than single spaces
C19_Witness ==
    /\ call.fn = "GetBearerToken"
    /\ HasScheme(call.header)
    /\ NumWords(call.header) = 3
    /\ \E i \in 1..Len(call.header) : call.header[i] = TAB
    /\ call.err = "nil"
    /\ Len(call.token) > Len(Word(call.header, 2))

\* C20: on a header that is the word Bearer, in some letter case, with only
\* whitespace or nothing around it, GetBearerToken fails with 'token cannot
\* be empty'.
C20_EmptyTokenFailure ==
    (/\ call.fn = "GetBearerToken"
     /\ HasScheme(call.header)
     /\ NumWords(call.header) = 1)
    => (call.err = "token cannot be empty" /\ call.token = <<>>)

\* the header value h carries no access token that is valid at time t: no
\* value, no bearer scheme, no token, or a token that is malformed, signed
\* with another key, altered, or expired
BadCredential(h, t) ==
    \/ h = <<>>
    \/ ~HasScheme(h)
    \/ NumWords(h) # 2
    \/ LET tok == Word(h, 2) IN
       \/ Len(tok) # 1
       \/ tok[1].kind # "jwt"
       \/ tok[1].sig # HS256(tok[1].claims, jwtSecret)
       \/ t >= tok[1].claims.exp * TicksPerSecond

\* C21: a request to create a chirp, to delete a chirp or to update a user
\* whose Authorization header carries no valid access token (missing,
\* malformed, wrongly signed or expired) is answered 401 with the body
\* "Unauthorized", whichever check failed, and leaves the users, the chirps
\* and the refresh tokens as they were.
C21_UnauthorizedAlike ==
    [][(/\ req = Idle
        /\ \/ req'.op \in {"createChirp", "deleteChirp"}
           \/ req'.op = "updateUser" /\ req'.method = "PUT"
        /\ BadCredential(req'.header, now))
       => (/\ resp' = Error(401, "Unauthorized")
           /\ users' = users
           /\ chirps' = chirps
           /\ refreshTokens' = refreshTokens)]_vars

\* a delete with an access token of a login, expired by now, while the store
\* holds a chirp
C21_Witness ==
    /\ req.op = "deleteChirp"
    /\ resp = Error(401, "Unauthorized")
    /\ \E t \in DOMAIN sessions :
          /\ req.bearer = sessions[t].token
          /\ now >= sessions[t].token[1].claims.exp * TicksPerSecond
    /\ chirps # <<>>

\* C22: serving an update of email and password, whatever its answer, leaves
\* the refresh-token store as it was; every refresh token that was usable
\* before it is usable after it, and a refresh with it is then answered 200,
\* also when the update has replaced the password of its owner.
C22_UpdateKeepsRefreshTokens ==
    /\ [][(req = Idle /\ req'.op = "updateUser")
          => (/\ refreshTokens' = refreshTokens
              /\ \A tok \in DOMAIN refreshTokens : Usable(tok) => Usable(tok)')]_vars
    /\ [](req.op = "updateUser" =>
             \A tok \in DOMAIN refreshTokens :
                Usable(tok) =>
                   \A out \in handlerRefresh(Request("refresh", "POST",
                                     Bearer \o <<SP>> \o tok, NoBody, "none", NoRnd)) :
                      out.resp.status = 200 /\ out.resp.token # <<>>)

\* an update answered 200 that has replaced the password of a user who
\* holds a usable refresh token
C22_Witness ==
    /\ req.op = "updateUser"
    /\ resp.status = 200
    /\ users[resp.userID].hashedPassword # Registered[resp.userID].hashedPassword
    /\ \E tok \in DOMAIN refreshTokens :
          Usable(tok) /\ refreshTokens[tok].userID = resp.userID

\* C23: an update changes the users only when its header carries a valid
\* access token and it is answered 200, and then only the row of the token's
\* subject, which gets the email of the request.  In the state such an
\* update leaves, the row holds a salted bcrypt hash that CheckPasswordHash
\* accepts for the new password, a login with the new email and password is
\* accepted (200 with a fresh refresh token), and a login with the new email
\* and any other password, the old one included, is answered 401.
C23_UpdateTakesEffect ==
    /\ [][(req = Idle /\ req'.op = "updateUser")
          => (/\ (users' # users) =>
                    (/\ req'.method = "PUT"
                     /\ ~BadCredential(req'.header, now)
                     /\ resp'.status = 200)
              /\ (resp'.status = 200) =>
                    LET sub == Word(req'.header, 2)[1].claims.sub.n IN
                    /\ ~BadCredential(req'.header, now)
                    /\ resp'.userID = sub
                    /\ DOMAIN users' = DOMAIN users
                    /\ \A u \in DOMAIN users \ {sub} : users'[u] = users[u]
                    /\ users'[sub].email = req'.body.email)]_vars
    /\ []((req.op = "updateUser" /\ resp.status = 200) =>
             LET stored == users[resp.userID].hashedPassword
                 LoginWith(password, b) ==
                     handlerLogin(Request("login", "POST", <<>>,
                                          Body(req.body.email, password), "none",
                                          [NoRnd EXCEPT !.bytes = b]))
             IN
             /\ stored.alg = "bcrypt"
             /\ stored.salt \in Salts
             /\ CheckPasswordHash(stored, req.body.password) = "nil"
             /\ \A b \in RandRead : \A out \in LoginWith(req.body.password, b) :
                   IF MakeRefreshToken(b).token \in DOMAIN refreshTokens
                   THEN out.resp.status = 500
                   ELSE out.resp.status = 200 /\ out.resp.userID = resp.userID
             /\ \A q \in {PasswordOf(u) : u \in UserIDs} \cup {NewPassword} :
                   (q # req.body.password) =>
                      \A b \in RandRead : \A out \in LoginWith(q, b) :
                         out.resp = Error(401, "Incorrect email or password"))

\* a login answered 200 for the email and the password that an update has
\* set, while the other user still has the credentials they registered with
C23_Witness ==
    /\ req.op = "login"
    /\ resp.status = 200
    /\ req.body = Body(NewEmail, NewPassword)
    /\ \E u \in DOMAIN users : u # resp.userID /\ users[u] = Registered[u]

\* C24: with refreshes and revokes of the same tokens running side by side,
\* a refresh is answered 200 exactly when its one read of the store found the
\* record unrevoked and unexpired, and 401 otherwise; a refresh that started
\* after a revoke of its token was answered 204 is answered 401; once a
\* revoke was answered 204 the record is revoked; and every record keeps the
\* owner, the creation time and the expiry its login gave it, with a
\* revocation time that is unset or a time that has been.
C24_RaceConsistent ==
    /\ \A g \in DOMAIN goroutines :
          (goroutines[g].op = "refresh" /\ goroutines[g].pc = "done") =>
             /\ goroutines[g].status \in {200, 401}
             /\ (goroutines[g].status = 200) <=> goroutines[g].readUsable
             /\ goroutines[g].afterRevoke => goroutines[g].status = 401
    /\ \A g \in DOMAIN goroutines :
          (goroutines[g].op = "revoke" /\ goroutines[g].pc = "done") =>
             /\ goroutines[g].status = 204
             /\ refreshTokens[goroutines[g].token].revokedAt # NullTime
    /\ DOMAIN refreshTokens = DOMAIN sessions
    /\ \A tok \in DOMAIN refreshTokens :
          /\ DOMAIN refreshTokens[tok] =
                 {"userID", "createdAt", "expiresAt", "revokedAt"}
          /\ refreshTokens[tok].userID = sessions[tok].userID
          /\ refreshTokens[tok].createdAt = sessions[tok].at
          /\ refreshTokens[tok].expiresAt = sessions[tok].at + SixtyDays
          /\ \/ refreshTokens[tok].revokedAt = NullTime
             \/ /\ refreshTokens[tok].createdAt <= refreshTokens[tok].revokedAt
                /\ refreshTokens[tok].revokedAt <= now
          /\ sessions[tok].revoked => refreshTokens[tok].revokedAt # NullTime

\* a refresh that has read its token as valid and has not answered yet,
\* while a revoke of the same token that started alongside it has been
\* answered 204
C24_Witness ==
    \E f, r \in DOMAIN goroutines :
       /\ goroutines[f].op = "refresh"
       /\ goroutines[f].pc = "write"
       /\ goroutines[f].err = "nil"
       /\ goroutines[r].op = "revoke"
       /\ goroutines[r].pc = "done"
       /\ goroutines[r].status = 204
       /\ goroutines[r].token = goroutines[f].token

\* C25: a request to a protected endpoint that presents an access token
\* handed out at a login or at a refresh passes the validation as long as
\* the time is before the expiry the token carries, and is answered 401 from
\* then on, whether the refresh token of its session is usable, revoked or
\* expired.
C25_AccessTokenOutlivesSession ==
    (/\ req.op = "deleteChirp"
     /\ \E t \in DOMAIN sessions :
           req.bearer # <<>> /\ req.bearer \in {sessions[t].token, sessions[t].refreshed})
    => ((resp.status # 401) <=> (now < req.bearer[1].claims.exp * TicksPerSecond))

\* a request that passes the validation with the access token of a refresh,
\* made when the refresh token of the session has reached its expiry
C25_Witness ==
    /\ req.op = "deleteChirp"
    /\ resp.status = 404
    /\ \E t \in DOMAIN sessions :
          /\ req.bearer = sessions[t].refreshed
          /\ now >= refreshTokens[t].expiresAt

\* C26: a login, refresh, revoke or update that ends on a failure of hashing,
\* of token generation or of the store is answered with a 500-class status,
\* and the response carries neither an access token nor a refresh token.
C26_FailuresAreInternal ==
    (/\ req.op \in {"login", "refresh", "revoke", "updateUser"}
     /\ log \in {"HashingFailure", "GenerationFailure", "StorageFailure"})
    => (/\ resp.status >= 500
        /\ resp.token = <<>>
        /\ resp.refreshToken = <<>>)

\* C27: a password compared with the hash of an accepted password matches
\* exactly when it is the password that was hashed, and the hash is not empty.
C27_VerifyIffSame ==
    (call.fn = "CheckPasswordHash") =>
        /\ (call.checked = "nil") <=> (call.candidate = call.password)
        /\ call.hash # Bcrypt(<<>>, "")

\* C28: a token MakeRefreshToken returns without error has exactly 64
\* characters, each of them one of 0-9 and a-f.
C28_SixtyFourLowerHex ==
    (call.fn = "MakeRefreshToken" /\ call.err = "nil") =>
        LET chars == Chars(call.token)
        IN  /\ Len(chars) = 2 * RefreshTokenBytes
            /\ Len(chars) = 64
            /\ \A i \in 1..Len(chars) :
                  chars[i] \in {Ch(c) : c \in {"0", "1", "2", "3", "4", "5", "6", "7",
                                               "8", "9", "a", "b", "c", "d", "e", "f"}}

\* a token returned for a buffer with a byte below 16, written with a leading
\* 0, and a byte whose low digit is a letter
C28_Witness ==
    /\ call.fn = "MakeRefreshToken"
    /\ call.err = "nil"
    /\ call.token # <<>>
    /\ \E i, j \in 1..RefreshTokenBytes :
          call.buffer[i] < 16 /\ call.buffer[j] % 16 >= 10

\* C30: a POST to the webhook that does not carry the configured API key is
\* answered 401 and leaves every user as it was.
C30_WebhookNeedsKey ==
    [][(/\ req = Idle
        /\ req'.op = "polkaWebhook"
        /\ req'.method = "POST"
        /\ req'.header # ApiKey \o <<SP>> \o polkaKey)
       => (/\ resp'.status = 401
           /\ users' = users)]_vars

\* C33: a login answered 200 adds the record of a token that had none and
\* leaves every earlier record as it was, and a revoke leaves the record of
\* every token other than the one presented as it was, whether it belongs to
\* the same user or to another.
C33_SessionsIndependent ==
    [][/\ (req = Idle /\ req'.op = "login" /\ resp'.status = 200)
          => (/\ resp'.refreshToken \notin DOMAIN refreshTokens
              /\ DOMAIN refreshTokens' = DOMAIN refreshTokens \cup {resp'.refreshToken}
              /\ \A t \in DOMAIN refreshTokens : refreshTokens'[t] = refreshTokens[t])
       /\ (req = Idle /\ req'.op = "revoke")
          => (/\ DOMAIN refreshTokens' = DOMAIN refreshTokens
              /\ \A t \in DOMAIN refreshTokens \ {req'.bearer} :
                    /\ refreshTokens'[t] = refreshTokens[t]
                    /\ Active(refreshTokens'[t], now') <=> Active(refreshTokens[t], now))
      ]_vars

\* a revoke answered 204 that ended one of two sessions of a user, the other
\* still usable
C33_Witness ==
    /\ req.op = "revoke"
    /\ resp.status = 204
    /\ \E t \in DOMAIN refreshTokens :
          /\ t # req.bearer
          /\ refreshTokens[t].userID = refreshTokens[req.bearer].userID
          /\ Usable(t)
          /\ refreshTokens[req.bearer].revokedAt # NullTime

\* C34: a refresh token presented as the bearer credential to create chirp,
\* delete chirp or update user is answered 401 and changes no store, and an
\* access token presented to refresh is answered 401.
C34_KindsNotInterchangeable ==
    [][/\ (/\ req = Idle
           /\ \/ req'.op \in {"createChirp", "deleteChirp"}
              \/ req'.op = "updateUser" /\ req'.method = "PUT"
           /\ req'.bearer \in RefreshTokenSpace \cup DOMAIN refreshTokens)
          => (/\ resp'.status = 401
              /\ users' = users
              /\ chirps' = chirps)
       /\ (/\ req = Idle
           /\ req'.op = "refresh"
           /\ req'.method = "POST"
           /\ \E t \in DOMAIN sessions : req'.bearer = sessions[t].token)
          => (/\ resp'.status = 401
              /\ resp'.token = <<>>)
      ]_vars

\* the access token of a login, still valid, answered 401 by refresh while
\* the refresh token of the same login is usable
C34_Witness ==
    /\ req.op = "refresh"
    /\ resp.status = 401
    /\ \E t \in DOMAIN sessions :
          /\ req.bearer = sessions[t].token
          /\ now < sessions[t].token[1].claims.exp * TicksPerSecond
          /\ Usable(t)

\* C35: every refresh token a login has returned has a record owned by the
\* user who logged in, and a login that is not answered 200 leaves the
\* refresh-token store as it was.
C35_ReturnedTokensAreStored ==
    /\ [](\A t \in DOMAIN sessions :
            /\ t \in DOMAIN refreshTokens
            /\ refreshTokens[t].userID = sessions[t].userID)
    /\ [][(req = Idle /\ req'.op = "login" /\ resp'.status # 200)
          => (/\ refreshTokens' = refreshTokens
              /\ resp'.refreshToken = <<>>)]_vars

\* a login that failed at the insert, after a login that was answered 200
C35_Witness ==
    /\ req.op = "login"
    /\ resp.status = 500
    /\ log = "StorageFailure"
    /\ \E t \in DOMAIN sessions : Usable(t)

\* C36: a delete removes a chirp only when it carries a valid access token
\* whose subject is the author of the chirp, and then removes that chirp
\* alone; a request without a valid token is answered 401, otherwise one whose
\* id is no UUID 400, otherwise one whose chirp does not exist 404, otherwise
\* one whose caller is not the author 403 (404 when the lookup of the chirp
\* fails in the store), and each of these answers leaves the chirps as they
\* were.
C36_DeleteOnlyByAuthor ==
    [][(req = Idle /\ req'.op = "deleteChirp")
       => LET bad == BadCredential(req'.header, now)
              id == req'.body.path
              wellFormed == id.text = "uuid"
              exists == wellFormed /\ id.n \in DOMAIN chirps
              subject == req'.bearer[1].claims.sub
          IN  /\ bad => resp'.status = 401
              /\ (~bad /\ ~wellFormed) => resp'.status = 400
              /\ (~bad /\ wellFormed /\ ~exists) => resp'.status = 404
              /\ (~bad /\ exists /\ UUIDString(chirps[id.n].userID) # subject
                      /\ log' # "StorageFailure")
                    => resp'.status = 403
              /\ resp'.status \in {400, 401, 403, 404} => chirps' = chirps
              /\ chirps' # chirps
                    => /\ ~bad
                       /\ exists
                       /\ UUIDString(chirps[id.n].userID) = subject
                       /\ resp'.status = 204
                       /\ chirps' = [c \in DOMAIN chirps \ {id.n} |-> chirps[c]]
      ]_vars

\* a delete by a user who is not the author of the chirp, answered 403
C36_Witness ==
    /\ req.op = "deleteChirp"
    /\ resp.status = 403
    /\ req.body.path.n \in DOMAIN chirps
    /\ UUIDString(chirps[req.body.path.n].userID) # req.bearer[1].claims.sub

\* C37: a create stores a chirp only for a request with a valid access token
\* and a text of 1 to 140 characters, and the chirp it stores has the subject
\* of the token as its author, whatever identity the body names; a text that
\* is empty or longer than 140 characters is answered 400 and stores nothing.
C37_AuthorIsSubject ==
    [][(req = Idle /\ req'.op = "createChirp")
       => LET bad == BadCredential(req'.header, now)
              text == req'.body.text
          IN  /\ (~bad /\ req'.body.ok /\ (text = <<>> \/ Len(text) > 140))
                    => (resp'.status = 400 /\ chirps' = chirps)
              /\ (resp'.status = 201) <=> (chirps' # chirps)
              /\ chirps' # chirps
                    => /\ ~bad
                       /\ Len(text) \in 1..140
                       /\ \E c \in DOMAIN chirps' \ DOMAIN chirps :
                             /\ DOMAIN chirps' = DOMAIN chirps \cup {c}
                             /\ \A d \in DOMAIN chirps : chirps'[d] = chirps[d]
                             /\ UUIDString(chirps'[c].userID)
                                    = req'.bearer[1].claims.sub
      ]_vars

\* a chirp created with a body that names another user than the caller
C37_Witness ==
    /\ req.op = "createChirp"
    /\ resp.status = 201
    /\ req.body.user_id # NilUUID
    /\ UUIDString(req.body.user_id) # req.bearer[1].claims.sub
    /\ \E c \in DOMAIN chirps : UUIDString(chirps[c].userID) = req.bearer[1].claims.sub

C40_TokenIsTrimmed ==
    (call.fn = "GetBearerToken") =>
        /\ call.err # "token cannot be empty"
        /\ (call.err = "nil") =>
              LET t == call.token
              IN  /\ t # <<>>
                  /\ ~IsSpace(t[1])
                  /\ ~IsSpace(t[Len(t)])
                  /\ \A i \in 1..(Len(t) - 1) : ~(IsSpace(t[i]) /\ IsSpace(t[i + 1]))

\* a successful call on a header with whitespace in a row and at its end
C40_Witness ==
    /\ call.fn = "GetBearerToken"
    /\ call.err = "nil"
    /\ IsSpace(call.header[Len(call.header)])
    /\ \E i \in 1..(Len(call.header) - 1) :
          IsSpace(call.header[i]) /\ IsSpace(call.header[i + 1])

\* the word w is one of kerfuffle, sharbert and fornax in some letter case
IsProfane(w) ==
    \E p \in {<<"k", "e", "r", "f", "u", "f", "f", "l", "e">>,
              <<"s", "h", "a", "r", "b", "e", "r", "t">>,
              <<"f", "o", "r", "n", "a", "x">>} :
        /\ Len(w) = Len(p)
        /\ \A i \in 1..Len(p) : w[i].kind = "ch" /\ LowerOf(w[i].c) = p[i]

\* C32: cleanProfanity returns the words of the text in their order, each
\* word that is kerfuffle, sharbert or fornax in some letter case replaced by
\* four asterisks and every other word as it was, also a word that only
\* contains one of the three; the empty text gives the empty text.
C32_ProfaneWordsMasked ==
    (call.fn = "cleanProfanity") =>
        LET n == NumWords(call.text)
        IN  /\ NumWords(call.result) = n
            /\ \A k \in 1..n :
                  Word(call.result, k) =
                      IF IsProfane(Word(call.text, k))
                      THEN <<Ch("*"), Ch("*"), Ch("*"), Ch("*")>>
                      ELSE Word(call.text, k)
            /\ (call.text = <<>>) => (call.result = <<>>)

\* a text with a word in capitals that is replaced and a word with a mark
\* attached that is kept
C32_Witness ==
    /\ call.fn = "cleanProfanity"
    /\ NumWords(call.text) = 2
    /\ Word(call.text, 1) = Str(<<"K", "E", "R", "F", "U", "F", "F", "L", "E">>)
    /\ Word(call.text, 2) = Str(<<"f", "o", "r", "n", "a", "x", "!">>)
    /\ Word(call.result, 1) = Str(<<"*", "*", "*", "*">>)
    /\ Word(call.result, 2) = Word(call.text, 2)

\* a request for /app/ has just passed middlewareMetricsInc
PassedMiddleware ==
    \E g \in DOMAIN goroutines' \ DOMAIN goroutines : goroutines'[g].op = "app"

\* C31: every request that passes through middlewareMetricsInc raises the hit
\* counter by exactly one, before its wrapped handler runs; no other step but
\* a reset changes the counter, so that after N such requests in any
\* interleaving and without a reset the counter is its initial value plus N;
\* handlerMetrics answers a GET with the current counter and leaves it as it
\* is, and answers any other method 405.
C31_EveryRequestCountsOnce ==
    [][/\ PassedMiddleware
            => /\ cfg.fileserverHits < cfg'.fileserverHits
               /\ cfg'.fileserverHits - cfg.fileserverHits = 1
               /\ \A g \in DOMAIN goroutines' \ DOMAIN goroutines :
                     goroutines'[g].pc = "next"
       /\ (~PassedMiddleware /\ ~(req = Idle /\ req'.op = "reset"))
            => cfg'.fileserverHits = cfg.fileserverHits
       /\ (req = Idle /\ req'.op = "metrics")
            => IF req'.method = "GET"
               THEN /\ resp'.status = 200
                    /\ resp'.visited = cfg.fileserverHits
                    /\ cfg' = cfg
               ELSE resp'.status = 405]_vars

\* a request for /admin/reset has just been served
ResetServed == req = Idle /\ req'.op = "reset"

\* the reset left the counter, the users and the chirps as they were
ResetChangedNothing == cfg' = cfg /\ users' = users /\ chirps' = chirps

\* C38, as stated: on a platform other than dev handlerReset answers 403 and
\* leaves the hit counter, the users and the chirps unchanged; on dev a POST
\* sets the hit counter to 0 and deletes all users and chirps, and when
\* deleting the users fails it answers 500 with the hit counter at 0 and the
\* chirps not deleted.
C38_ResetAsStated ==
    [][ResetServed =>
         /\ cfg.platform # "dev"
              => resp'.status = 403 /\ ResetChangedNothing
         /\ (cfg.platform = "dev" /\ req'.method = "POST")
              => /\ cfg'.fileserverHits = 0
                 /\ IF resp'.error = "Error deleting users"
                    THEN resp'.status = 500 /\ chirps' = chirps
                    ELSE users' = <<>> /\ chirps' = <<>>]_vars

\* C38: handlerReset answers any method but POST 405 and a POST on a platform
\* other than dev 403, and leaves the hit counter, the users and the chirps
\* unchanged in both cases; a POST on dev sets the hit counter to 0 and
\* answers 200 or 500: 200 when no delete fails, with all users and chirps
\* deleted; 500 when deleting the users fails, with the hit counter at 0 and
\* the users and chirps not deleted; 500 when deleting the chirps fails, with
\* the hit counter at 0 and the users deleted.
C38_ResetOnDevOnly ==
    [][ResetServed =>
         IF req'.method # "POST"
         THEN resp'.status = 405 /\ ResetChangedNothing
         ELSE IF cfg.platform # "dev"
         THEN resp'.status = 403 /\ ResetChangedNothing
         ELSE /\ cfg' = [cfg EXCEPT !.fileserverHits = 0]
              /\ resp'.status \in {200, 500}
              /\ log' = "nil" => resp'.status = 200
              /\ resp'.status = 200 => users' = <<>> /\ chirps' = <<>>
              /\ resp'.status = 500
                   => \/ /\ resp'.error = "Error deleting users"
                         /\ users' = users /\ chirps' = chirps
                      \/ /\ resp'.error = "Error deleting chirps"
                         /\ users' = <<>>]_vars

\* deleting the users has failed after a request for /app/ was counted: the
\* counter is at 0, the users and the chirp are still there
C38_Witness ==
    /\ req.op = "reset" /\ req.method = "POST"
    /\ resp.status = 500 /\ resp.error = "Error deleting users"
    /\ \E g \in DOMAIN goroutines : goroutines[g].op = "app"
    /\ cfg.fileserverHits = 0
    /\ users # <<>> /\ chirps # <<>>

====
